---- MODULE Spec2Model ----
(***************************************************************************)
(* Model of the reconcile state machine of cluster-api-provider-vcluster:  *)
(* VClusterReconciler (controllers/vcluster_controller.go) and             *)
(* GenericReconciler, for one virtual-cluster resource stored in the API   *)
(* server.                                                                 *)
(*                                                                         *)
(* A reconcile pass is one action, Reconcile, from r.Client.Get to the     *)
(* deferred status step: the work queue runs one pass at a time for a      *)
(* resource.  The outcome of every external call of the pass (API server,  *)
(* Helm, nested control plane) is an input of the action.  Between passes  *)
(* the user and the other controllers act on the stored resource.          *)
(***************************************************************************)
EXTENDS Integers, Sequences, FiniteSets, TLC

VARIABLES
    variant,            \* which reconciler runs: "VCluster" or "Generic"
    clusterKindExists,  \* r.clusterKindExists, fixed by SetupWithManager
    vc,                 \* the resource as stored in the API server
    nsTerminating,      \* the namespace has a deletionTimestamp
    release,            \* Helm release record of the resource: "none" or "helm"
    pvc,                \* PVC data-<name>-0 exists
    last,               \* what the last finished pass did and returned; reset
                        \* when anyone else acts on the resource
    fn                  \* a call of one of the helper functions, with its
                        \* arguments and its result (SpecHelpers only)

vars == <<variant, clusterKindExists, vc, nsTerminating, release, pvc, last, fn>>

----------------------------------------------------------------------------
(* Bounds *)

\* user spec updates stop when generation has reached MaxGeneration
MaxGeneration == 2

\* polls of the Service that DiscoverHostFromService makes before its deadline
MaxPolls == 2

\* number of leaf values of the default values given to mergeMaps, and of
\* the user's values
MaxLeaf == 1

\* versions a Helm release secret can have, and the number of release
\* secrets in the namespace
MaxVersion == 2
MaxSecrets == 2

\* calls of GetServiceCIDR each reconcile worker makes
MaxCalls == 2

(* Program constants *)

DefaultControlPlanePort == 443
RequeueShort == 5       \* time.Second * 5
RequeueLong == 60       \* time.Minute, in seconds

UserHosts == {"", "user.example"}
UserPorts == {0, 8443}
ChartVersions == {"", "0.19"}

----------------------------------------------------------------------------
(* Conditions (pkg/util/conditions) *)

ReadyCondition == "Ready"
ControlPlaneInitializedCondition == "ControlPlaneInitialized"
HelmChartDeployedCondition == "HelmChartDeployed"
InfrastructureClusterSyncedCondition == "InfrastructureClusterSynced"
KubeconfigReadyCondition == "KubeconfigReady"

\* the order in which the condition list is kept: Ready first, then by type
ConditionOrder ==
    << ReadyCondition, ControlPlaneInitializedCondition, HelmChartDeployedCondition,
       InfrastructureClusterSyncedCondition, KubeconfigReadyCondition >>

ConditionTypes == { ConditionOrder[i] : i \in 1..Len(ConditionOrder) }

AbsentCondition == [status |-> "Absent", severity |-> "", reason |-> "", message |-> ""]

TrueCondition == [status |-> "True", severity |-> "", reason |-> "", message |-> ""]

FalseCondition(reason, severity, message) ==
    [status |-> "False", severity |-> severity, reason |-> reason, message |-> message]

IsTrue(o, t) == o.conditions[t].status = "True"

MarkTrue(o, t) == [o EXCEPT !.conditions[t] = TrueCondition]

MarkFalse(o, t, reason, severity, message) ==
    [o EXCEPT !.conditions[t] = FalseCondition(reason, severity, message)]

DeleteCondition(o, t) == [o EXCEPT !.conditions[t] = AbsentCondition]

IsError(c) == c.status = "False" /\ c.severity = "Error"

HasErrorCondition(o) == \E t \in ConditionTypes : IsError(o.conditions[t])

\* index in the condition list of the first condition False with severity Error
FirstErrorIndex(o) ==
    CHOOSE i \in 1..Len(ConditionOrder) :
        /\ IsError(o.conditions[ConditionOrder[i]])
        /\ \A j \in 1..(i-1) : ~IsError(o.conditions[ConditionOrder[j]])

FirstErrorCondition(o) == o.conditions[ConditionOrder[FirstErrorIndex(o)]]

SeverityRank(c) ==
    IF c.status = "False" /\ c.severity = "Error" THEN 0
    ELSE IF c.status = "False" /\ c.severity = "Warning" THEN 1
    ELSE IF c.status = "False" THEN 2
    ELSE 3

\* SetSummary(vCluster, WithConditions(types)): Ready is the AND of the listed
\* conditions that are present, a False one with the worst severity winning;
\* with none of them present Ready is left as it is.
SetSummary(o, types) ==
    LET present == { t \in types : o.conditions[t].status # "Absent" }
        worst == CHOOSE t \in present :
                    \A u \in present : SeverityRank(o.conditions[t]) <= SeverityRank(o.conditions[u])
    IN  IF present = {} THEN o
        ELSE IF o.conditions[worst].status = "True" THEN MarkTrue(o, ReadyCondition)
        ELSE [o EXCEPT !.conditions[ReadyCondition] = o.conditions[worst]]

----------------------------------------------------------------------------
(* The resource *)

NoConditions == [t \in ConditionTypes |-> AbsentCondition]

NewResource(host, port, version, valuesBoth, owner) ==
    [ exists |-> TRUE, generation |-> 1, deleting |-> FALSE, finalizer |-> FALSE,
      ownerCluster |-> owner,
      host |-> host, port |-> port, version |-> version, valuesBoth |-> valuesBoth,
      ready |-> FALSE, initialized |-> FALSE, phase |-> "", reason |-> "",
      message |-> "", observedGeneration |-> 0, externalManaged |-> FALSE,
      conditions |-> NoConditions ]

\* the specs the model draws: the chart version decides nothing in
\* GenericReconciler, and VClusterReconciler reads no valuesObject
ValidSpec(version, valuesBoth) ==
    IF variant = "Generic" THEN version = "0.19" ELSE ~valuesBoth

\* the resource once the API server has removed it from storage
Gone == [NewResource("", 0, "", FALSE, FALSE) EXCEPT !.exists = FALSE, !.generation = 0]

NoPass ==
    [ branch |-> "none", trace |-> << >>, requeue |-> 0, err |-> "", patchErr |-> "",
      patched |-> FALSE ]

NoCall == [op |-> "none"]

Init ==
    /\ variant \in {"VCluster", "Generic"}
    /\ clusterKindExists \in BOOLEAN
    /\ \E h \in UserHosts, p \in UserPorts, v \in ChartVersions, b \in BOOLEAN, ow \in BOOLEAN :
          /\ ValidSpec(v, b)
          /\ (ow => clusterKindExists)
          /\ vc = NewResource(h, p, v, b, ow)
    /\ nsTerminating = FALSE
    /\ release = "none"
    /\ pvc = FALSE
    /\ last = NoPass
    /\ fn = NoCall

----------------------------------------------------------------------------
(* External calls made by a pass, in order, each with its result *)

Call(c, r) == [call |-> c, res |-> r]

CallsOf(trace, c) == { i \in 1..Len(trace) : trace[i].call = c }

Invoked(trace, c) == CallsOf(trace, c) # {}

Succeeded(trace, c) == \E i \in CallsOf(trace, c) : trace[i].res \in {"ok", "notfound"}

----------------------------------------------------------------------------
(* Finalizer helpers *)

\* mutation of RemoveFinalizer: the error of client.Update is dropped
RemoveFinalizerDroppingError(o, updOK) ==
    IF o.finalizer
    THEN [o |-> [o EXCEPT !.finalizer = FALSE], err |-> "",
          trace |-> << Call("UpdateFinalizer", IF updOK THEN "ok" ELSE "err") >>,
          stored |-> IF updOK THEN "removed" ELSE "keep"]
    ELSE [o |-> o, err |-> "", trace |-> << >>, stored |-> "keep"]

\* RemoveFinalizer: client.Update only if the finalizer is in the list
RemoveFinalizer(o, updOK) ==
    IF o.finalizer
    THEN IF updOK
         THEN [o |-> [o EXCEPT !.finalizer = FALSE], err |-> "",
               trace |-> << Call("UpdateFinalizer", "ok") >>, stored |-> "removed"]
         ELSE [o |-> [o EXCEPT !.finalizer = FALSE], err |-> "update failed",
               trace |-> << Call("UpdateFinalizer", "err") >>, stored |-> "keep"]
    ELSE [o |-> o, err |-> "", trace |-> << >>, stored |-> "keep"]

\* mutation of EnsureFinalizer: the error of client.Update is dropped
EnsureFinalizerDroppingError(o, updOK) ==
    IF ~o.finalizer
    THEN [o |-> [o EXCEPT !.finalizer = TRUE], err |-> "",
          trace |-> << Call("UpdateFinalizer", IF updOK THEN "ok" ELSE "err") >>,
          stored |-> IF updOK THEN "added" ELSE "keep"]
    ELSE [o |-> o, err |-> "", trace |-> << >>, stored |-> "keep"]

\* mutation of EnsureFinalizer: the list is changed in memory, client.Update
\* is not called
EnsureFinalizerInMemoryOnly(o, updOK) ==
    [o |-> [o EXCEPT !.finalizer = TRUE], err |-> "", trace |-> << >>, stored |-> "keep"]

\* EnsureFinalizer: client.Update only if the finalizer is not in the list
EnsureFinalizer(o, updOK) ==
    IF ~o.finalizer
    THEN IF updOK
         THEN [o |-> [o EXCEPT !.finalizer = TRUE], err |-> "",
               trace |-> << Call("UpdateFinalizer", "ok") >>, stored |-> "added"]
         ELSE [o |-> [o EXCEPT !.finalizer = TRUE], err |-> "update failed",
               trace |-> << Call("UpdateFinalizer", "err") >>, stored |-> "keep"]
    ELSE [o |-> o, err |-> "", trace |-> << >>, stored |-> "keep"]

----------------------------------------------------------------------------
(* Deletion branch *)

\* mutation of deleteHelmChart: the error of helmClient.Delete is dropped
deleteHelmChartDroppingError(lookup, helmDeleteOK) ==
    IF lookup = "err"
    THEN [err |-> "release lookup failed", trace |-> << Call("ReleaseGet", "err") >>, deleted |-> FALSE]
    ELSE IF lookup # "helm"
    THEN [err |-> "", trace |-> << Call("ReleaseGet", lookup) >>, deleted |-> FALSE]
    ELSE [err |-> "",
          trace |-> << Call("ReleaseGet", "helm"),
                       Call("HelmDelete", IF helmDeleteOK THEN "ok" ELSE "err") >>,
          deleted |-> helmDeleteOK]

\* lookup: what helmSecrets.Get returns: "err", "notfound", "helm" (a release
\* whose secret is labelled owner=helm) or "unlabelled"
deleteHelmChart(lookup, helmDeleteOK) ==
    IF lookup = "err"
    THEN [err |-> "release lookup failed", trace |-> << Call("ReleaseGet", "err") >>, deleted |-> FALSE]
    ELSE IF lookup = "notfound"
    THEN [err |-> "", trace |-> << Call("ReleaseGet", "notfound") >>, deleted |-> FALSE]
    ELSE IF lookup # "helm"
    THEN [err |-> "", trace |-> << Call("ReleaseGet", lookup) >>, deleted |-> FALSE]
    ELSE IF helmDeleteOK
    THEN [err |-> "", trace |-> << Call("ReleaseGet", "helm"), Call("HelmDelete", "ok") >>,
          deleted |-> TRUE]
    ELSE [err |-> "helm delete failed",
          trace |-> << Call("ReleaseGet", "helm"), Call("HelmDelete", "err") >>, deleted |-> FALSE]

Outcome(branch, o, trace, requeue, err, deferred, fin, rel, pvcAfter) ==
    [ branch |-> branch, o |-> o, trace |-> trace, requeue |-> requeue, err |-> err,
      deferred |-> deferred, finalizer |-> fin, release |-> rel, pvc |-> pvcAfter ]

\* mutation of NamespaceIsDeleting: the namespace check left out
NamespaceNeverDeleting(nsGet) == FALSE

\* namespace.DeletionTimestamp != nil, on the namespace the Get returned
NamespaceIsDeleting(nsGet) == nsGet = "terminating"

\* mutation of deletePersistentVolumeClaim: every error of the Delete is
\* tolerated, not only not-found
deletePersistentVolumeClaimAnyError(pvcDel) ==
    [err |-> "", trace |-> << Call("PvcDelete", pvcDel) >>, deleted |-> pvcDel = "ok"]

\* r.Client.Delete of PVC data-<name>-0; pvcDel: "ok", "notfound" or "err"
deletePersistentVolumeClaim(pvcDel) ==
    [err |-> IF pvcDel \in {"ok", "notfound"} THEN "" ELSE "pvc delete failed",
     trace |-> << Call("PvcDelete", pvcDel) >>, deleted |-> pvcDel = "ok"]

\* Reconcile, "is deleting?" branch.  nsGet: result of the namespace Get
ReconcileDeleting(o, nsGet, lookup, helmDeleteOK, pvcDel, updOK) ==
    LET t0 == << Call("NamespaceGet", nsGet) >> IN
    IF nsGet = "err"
    THEN Outcome("deleting", o, t0, 0, "", FALSE, "keep", release, pvc)
    ELSE IF NamespaceIsDeleting(nsGet)
    THEN LET rf == RemoveFinalizer(o, updOK) IN
         Outcome("deleting", rf.o, t0 \o rf.trace, 0, rf.err, FALSE, rf.stored, release, pvc)
    ELSE
    LET dh == deleteHelmChart(lookup, helmDeleteOK)
        relAfter == IF dh.deleted THEN "none" ELSE release
    IN
    IF dh.err # ""
    THEN Outcome("deleting", o, t0 \o dh.trace, 0, dh.err, FALSE, "keep", relAfter, pvc)
    ELSE
    LET dp == deletePersistentVolumeClaim(pvcDel)
        t1 == t0 \o dh.trace \o dp.trace
        pvcAfter == IF dp.deleted THEN FALSE ELSE pvc
    IN
    IF dp.err # ""
    THEN Outcome("deleting", o, t1, 0, dp.err, FALSE, "keep", relAfter, pvcAfter)
    ELSE LET rf == RemoveFinalizer(o, updOK) IN
         Outcome("deleting", rf.o, t1 \o rf.trace, 0, rf.err, FALSE, rf.stored, relAfter, pvcAfter)

----------------------------------------------------------------------------
(* Phase computation *)

\* mutation of reconcilePhaseVCluster: Failed is computed first and
\* Deployed after it
reconcilePhaseVClusterDeployedLast(o) ==
    LET o1 == [o EXCEPT !.phase = "Pending", !.reason = "", !.message = ""]
        o2 == IF HasErrorCondition(o1)
              THEN [o1 EXCEPT !.phase = "Failed",
                              !.reason = FirstErrorCondition(o1).reason,
                              !.message = FirstErrorCondition(o1).message]
              ELSE o1
    IN  IF o2.ready /\ IsTrue(o2, ControlPlaneInitializedCondition)
        THEN [o2 EXCEPT !.phase = "Deployed"] ELSE o2

\* VClusterReconciler.reconcilePhase
reconcilePhaseVCluster(o) ==
    LET o1 == [o EXCEPT !.phase = "Pending"]
        o2 == IF o1.ready /\ IsTrue(o1, ControlPlaneInitializedCondition)
              THEN [o1 EXCEPT !.phase = "Deployed"] ELSE o1
        o3 == [o2 EXCEPT !.reason = "", !.message = ""]
    IN  IF HasErrorCondition(o3)
        THEN [o3 EXCEPT !.phase = "Failed",
                        !.reason = FirstErrorCondition(o3).reason,
                        !.message = FirstErrorCondition(o3).message]
        ELSE o3

\* mutation of reconcilePhaseGeneric: Deployed is decided by the
\* ControlPlaneInitialized condition alone
reconcilePhaseGenericIgnoringReady(o) ==
    LET o1 == IF HasErrorCondition(o)
              THEN [o EXCEPT !.phase = "Failed",
                             !.reason = FirstErrorCondition(o).reason,
                             !.message = FirstErrorCondition(o).message]
              ELSE o
    IN  IF o1.phase # "Failed"
        THEN IF IsTrue(o1, ControlPlaneInitializedCondition)
             THEN [o1 EXCEPT !.phase = "Deployed"]
             ELSE [o1 EXCEPT !.phase = "Pending"]
        ELSE o1

\* GenericReconciler.reconcilePhase
reconcilePhaseGeneric(o) ==
    LET o1 == IF HasErrorCondition(o)
              THEN [o EXCEPT !.phase = "Failed",
                             !.reason = FirstErrorCondition(o).reason,
                             !.message = FirstErrorCondition(o).message]
              ELSE o
    IN  IF o1.phase # "Failed"
        THEN IF o1.ready /\ IsTrue(o1, ControlPlaneInitializedCondition)
             THEN [o1 EXCEPT !.phase = "Deployed"]
             ELSE [o1 EXCEPT !.phase = "Pending"]
        ELSE o1

\* mutation of reconcilePhase: a False KubeconfigReady keeps the phase from
\* Deployed
reconcilePhaseNotDeployedWithoutKubeconfig(o) ==
    LET p == IF variant = "Generic" THEN reconcilePhaseGeneric(o) ELSE reconcilePhaseVCluster(o)
    IN  IF p.phase = "Deployed" /\ p.conditions[KubeconfigReadyCondition].status = "False"
        THEN [p EXCEPT !.phase = "Pending"] ELSE p

reconcilePhase(o) ==
    IF variant = "Generic" THEN reconcilePhaseGeneric(o) ELSE reconcilePhaseVCluster(o)

----------------------------------------------------------------------------
(* Redeploy *)

\* mutation of RedeployGate: the generation is not compared
RedeployGateConditionOnly(o) == IsTrue(o, HelmChartDeployedCondition)

\* the skip condition at the head of redeployIfNeeded
RedeployGate(o) ==
    o.generation = o.observedGeneration /\ IsTrue(o, HelmChartDeployedCondition)

\* mutation of helmUpgrade: the KubeconfigReady condition is left as it was
helmUpgradeKeepingKubeconfigReady(o, helmOK) ==
    IF helmOK
    THEN [o |-> MarkTrue(o, HelmChartDeployedCondition),
          err |-> "", trace |-> << Call("Upgrade", "ok") >>]
    ELSE [o |-> o, err |-> "error installing / upgrading vcluster",
          trace |-> << Call("Upgrade", "err") >>]

\* the tail of redeployIfNeeded: HelmClient.Upgrade and the condition updates
helmUpgrade(o, helmOK) ==
    IF helmOK
    THEN [o |-> DeleteCondition(MarkTrue(o, HelmChartDeployedCondition), KubeconfigReadyCondition),
          err |-> "", trace |-> << Call("Upgrade", "ok") >>]
    ELSE [o |-> o, err |-> "error installing / upgrading vcluster",
          trace |-> << Call("Upgrade", "err") >>]

\* VClusterReconciler.redeployIfNeeded
redeployIfNeededVCluster(o, helmOK) ==
    IF RedeployGate(o) THEN [o |-> o, err |-> "", trace |-> << >>]
    ELSE IF o.version = ""
    THEN [o |-> o, err |-> "empty value of the .spec.HelmRelease.Version field", trace |-> << >>]
    ELSE helmUpgrade(o, helmOK)

\* GenericReconciler.redeployIfNeeded
redeployIfNeededGeneric(o, helmOK) ==
    IF RedeployGate(o) THEN [o |-> o, err |-> "", trace |-> << >>]
    ELSE IF o.valuesBoth
    THEN [o |-> o, err |-> "both values and valuesObject cannot be set", trace |-> << >>]
    ELSE helmUpgrade(o, helmOK)

redeployIfNeeded(o, helmOK) ==
    IF variant = "Generic" THEN redeployIfNeededGeneric(o, helmOK)
    ELSE redeployIfNeededVCluster(o, helmOK)

----------------------------------------------------------------------------
(* Kubeconfig sync *)

\* the calls of syncVClusterKubeconfig that can fail, in order
SyncSteps ==
    <<"credentials", "malformed", "probe", "kubeconfig", "discover", "secret", "certs",
      "caSecret">>

SyncFailures == { SyncSteps[i] : i \in 1..Len(SyncSteps) } \cup {"none"}

\* what DiscoverHostFromService can return on success: in VClusterReconciler
\* a non-empty address (that of the load balancer, else <name>.<namespace>);
\* in GenericReconciler the load balancer's address, else the Service's
\* ClusterIP, which is empty when there is no Service
DiscoveredHosts ==
    IF variant = "Generic" THEN {"10.96.0.7", ""} ELSE {"name.namespace"}

\* DiscoverHostFromService is called only while the spec names no host
DiscoveryResults(o) == IF o.host = "" THEN DiscoveredHosts ELSE {""}

\* the number of cluster entries of the bootstrap kubeconfig (secret
\* vc-<name>, key "config") that the pass reads
KubeConfigClusters(fail) == IF fail = "kubeconfig" THEN 2 ELSE 1

UnexpectedKubeConfigNever(clusters) == FALSE

\* len(kubeConfig.Clusters) != 1
UnexpectedKubeConfig(clusters) == clusters # 1

\* mutation of NeedsInitializationProbe: the probe is made on every pass
NeedsInitializationProbeAlways(o) == TRUE

\* "if we haven't checked if the vcluster is initialized, do it now"
NeedsInitializationProbe(o) == ~IsTrue(o, ControlPlaneInitializedCondition)

\* syncVClusterKubeconfig; fail names the first call that fails when reached,
\* discovered is the host DiscoverHostFromService returns
syncVClusterKubeconfig(o, fail, discovered) ==
    \* GetVClusterCredentials: the secret or its key is missing, or the
    \* document does not load (clientcmd.Load)
    IF fail = "credentials"
    THEN [o |-> o, err |-> "credentials",
          trace |-> << Call("GetVClusterCredentials", "missing") >>]
    ELSE IF fail = "malformed"
    THEN [o |-> o, err |-> "failed to load vcluster kube config",
          trace |-> << Call("GetVClusterCredentials", "malformed") >>]
    ELSE
    LET probes == NeedsInitializationProbe(o)
        t0 == << Call("GetVClusterCredentials", "ok") >>
        t1 == IF probes
              THEN t0 \o << Call("Probe", IF fail = "probe" THEN "err" ELSE "ok") >>
              ELSE t0
    IN
    IF probes /\ fail = "probe"
    THEN [o |-> o, err |-> "probe", trace |-> t1]
    ELSE
    LET o1 == [(IF probes THEN MarkTrue(o, ControlPlaneInitializedCondition) ELSE o)
                    EXCEPT !.initialized = TRUE]
        tk == t1 \o << Call("GetVClusterKubeConfig",
                             IF fail = "kubeconfig" THEN "clusters" ELSE "ok") >>
    IN
    IF UnexpectedKubeConfig(KubeConfigClusters(fail))
    THEN [o |-> o1, err |-> "unexpected kube config", trace |-> tk]
    ELSE
    LET discovers == o1.host = ""
        t2 == IF discovers
              THEN tk \o << Call("Discover", IF fail = "discover" THEN "err" ELSE "ok") >>
              ELSE tk
    IN
    IF discovers /\ fail = "discover"
    THEN [o |-> o1, err |-> "can not get vcluster service", trace |-> t2]
    ELSE
    LET o2 == IF discovers
              THEN [o1 EXCEPT !.host = discovered,
                              !.port = IF o1.port = 0 THEN DefaultControlPlanePort ELSE o1.port]
              ELSE o1
        t3 == t2 \o << Call("SecretWrite", IF fail = "secret" THEN "err" ELSE "ok") >>
    IN
    IF fail = "secret"
    THEN [o |-> o2, err |-> "can not create a kubeconfig secret", trace |-> t3]
    ELSE IF variant = "Generic" /\ fail = "certs"
    THEN [o |-> o2, err |-> "can not get certs secret", trace |-> t3]
    ELSE
    \* only GenericReconciler writes the <cluster>-ca secret
    LET t4 == IF variant = "Generic"
              THEN t3 \o << Call("CaSecretWrite",
                                 IF fail = "caSecret" THEN "err" ELSE "ok") >>
              ELSE t3
    IN
    IF variant = "Generic" /\ fail = "caSecret"
    THEN [o |-> o2, err |-> "can not create a kubeconfig secret", trace |-> t4]
    ELSE [o |-> MarkTrue(o2, KubeconfigReadyCondition), err |-> "", trace |-> t4]

----------------------------------------------------------------------------
(* Infrastructure-cluster patch and readiness probe *)

\* GenericReconciler.patchInfrastructureCluster; infra: "self" (the parent's
\* infrastructureRef is a VCluster), "patched", "errEarly" (owner reference or
\* parent Cluster missing), "errLate" (infrastructure object missing or its
\* patch failing)
patchInfrastructureCluster(o, infra) ==
    IF ~clusterKindExists THEN [o |-> o, err |-> "", trace |-> << >>]
    ELSE IF infra = "errEarly"
    THEN [o |-> o, err |-> "failed to get parent cluster", trace |-> << >>]
    ELSE IF infra = "self" THEN [o |-> o, err |-> "", trace |-> << >>]
    ELSE IF infra = "errLate"
    THEN [o |-> [o EXCEPT !.externalManaged = TRUE],
          err |-> "failed to get infrastructure cluster",
          trace |-> << Call("InfraPatch", "err") >>]
    ELSE [o |-> [o EXCEPT !.externalManaged = TRUE], err |-> "",
          trace |-> << Call("InfraPatch", "ok") >>]

InfraResults == {"self", "patched", "errEarly", "errLate"}

\* mutation of checkReadyz: every answered request counts as ready
checkReadyzAnyBody(readyz) ==
    IF readyz = "err" THEN [ready |-> FALSE, err |-> "readyz"]
    ELSE [ready |-> TRUE, err |-> ""]

\* checkReadyz; readyz: "ok", "notok" (a body other than "ok") or "err"
checkReadyz(readyz) ==
    IF readyz = "err" THEN [ready |-> FALSE, err |-> "readyz"]
    ELSE IF readyz # "ok" THEN [ready |-> FALSE, err |-> ""]
    ELSE [ready |-> TRUE, err |-> ""]

ReadyzResults == {"ok", "notok", "err"}

----------------------------------------------------------------------------
(* Normal branch of Reconcile, up to the return statement *)

ReadyzOutcomes(o, trace, fin, rel) ==
    { LET rz == checkReadyz(readyz)
          o1 == [o EXCEPT !.ready = rz.ready]
          t1 == trace \o << Call("Readyz", readyz) >>
      IN  IF rz.err # "" \/ ~o1.ready
          THEN Outcome("readyz", o1, t1, RequeueShort, "", TRUE, fin, rel, pvc)
          ELSE Outcome("success", o1, t1, RequeueLong, "", TRUE, fin, rel, pvc)
      : readyz \in ReadyzResults }

MarkPatchFailedNotRecorded(o, err) == o

\* what Reconcile records when patchInfrastructureCluster fails
MarkPatchFailed(o, err) ==
    MarkFalse(o, InfrastructureClusterSyncedCondition, "PatchFailed", "Error", err)

InfraOutcomes(o, trace, fin, rel) ==
    IF variant # "Generic" THEN ReadyzOutcomes(o, trace, fin, rel)
    ELSE UNION {
        LET pi == patchInfrastructureCluster(o, infra) IN
        IF pi.err # ""
        THEN { Outcome("infra",
                       MarkPatchFailed(pi.o, pi.err),
                       trace \o pi.trace, 0, pi.err, TRUE, fin, rel, pvc) }
        ELSE ReadyzOutcomes(MarkTrue(pi.o, InfrastructureClusterSyncedCondition),
                            trace \o pi.trace, fin, rel)
        : infra \in InfraResults }

MarkSyncFailedAsError(o, err) ==
    MarkFalse(o, KubeconfigReadyCondition, "CheckFailed", "Error", err)

\* mutation of MarkSyncFailed: the failure is only logged
MarkSyncFailedNotRecorded(o, err) == o

\* what Reconcile records when syncVClusterKubeconfig fails
MarkSyncFailed(o, err) ==
    MarkFalse(o, KubeconfigReadyCondition, "CheckFailed", "Warning", err)

SyncOutcomes(o, trace, fin, rel) ==
    UNION {
        LET sy == syncVClusterKubeconfig(o, fail, d) IN
        IF sy.err # ""
        THEN { Outcome("sync",
                       MarkSyncFailed(sy.o, sy.err),
                       trace \o sy.trace, RequeueShort, "", TRUE, fin, rel, pvc) }
        ELSE InfraOutcomes(sy.o, trace \o sy.trace, fin, rel)
        : fail \in SyncFailures, d \in DiscoveryResults(o) }

RedeployOutcomes(o, trace, fin) ==
    UNION {
        LET rd == redeployIfNeeded(o, helmOK)
            rel == IF Succeeded(rd.trace, "Upgrade") THEN "helm" ELSE release
        IN
        IF rd.err # ""
        THEN { Outcome("redeploy",
                       MarkFalse(rd.o, HelmChartDeployedCondition, "HelmDeployFailed",
                                 "Error", rd.err),
                       trace \o rd.trace, RequeueShort, rd.err, TRUE, fin, rel, pvc) }
        ELSE SyncOutcomes(rd.o, trace \o rd.trace, fin, rel)
        : helmOK \in BOOLEAN }

\* mutation of PendingOwnership: the gate is left out, as it is when the
\* controller is not installed via CAPI
PendingOwnershipUngated(o) == FALSE

\* the owner gate: installed via CAPI and no owner reference of kind Cluster
PendingOwnership(o) == clusterKindExists /\ ~o.ownerCluster

\* Reconcile from the owner gate on; updOKs: the possible results of the
\* finalizer update
ReconcileNormal(o, updOKs) ==
    IF PendingOwnership(o)
    THEN { Outcome("pendingOwnership", o, << >>, 0, "", FALSE, "keep", release, pvc) }
    ELSE UNION {
        LET ef == EnsureFinalizer(o, updOK) IN
        IF ef.err # ""
        THEN { Outcome("finalizer", ef.o, ef.trace, 0, ef.err, FALSE, "keep", release, pvc) }
        ELSE { [r EXCEPT !.before = ef.o]
               : r \in { x @@ [before |-> ef.o] : x \in RedeployOutcomes(ef.o, ef.trace, ef.stored) } }
        : updOK \in updOKs }

----------------------------------------------------------------------------
(* The deferred status step *)

\* mutation of WithStatusObservedGeneration: the option is always added
WithStatusObservedGenerationAlways(reterr) == TRUE

\* patchOpts: WithStatusObservedGeneration is added only if reterr == nil
WithStatusObservedGeneration(reterr) == reterr = ""

\* patchCluster, the summary it computes before patching
patchClusterSummary(o) ==
    SetSummary(o, {KubeconfigReadyCondition, ControlPlaneInitializedCondition})

\* patchHelper.Patch: the difference between the object as it was when the
\* helper was created (before) and as it is now (after) is written to the
\* stored resource s; a spec change makes the API server advance generation
Patch(s, before, after, withObservedGeneration) ==
    LET a == IF withObservedGeneration
             THEN [after EXCEPT !.observedGeneration = after.generation] ELSE after
        host == IF a.host # before.host THEN a.host ELSE s.host
        port == IF a.port # before.port THEN a.port ELSE s.port
        specChanged == host # s.host \/ port # s.port
    IN  [s EXCEPT !.host = host, !.port = port,
                  !.generation = IF specChanged THEN @ + 1 ELSE @,
                  !.ready = a.ready, !.initialized = a.initialized,
                  !.phase = a.phase, !.reason = a.reason, !.message = a.message,
                  !.observedGeneration = a.observedGeneration,
                  !.externalManaged = a.externalManaged,
                  !.conditions = a.conditions]

DeferredObjectWithoutPhase(r) == patchClusterSummary(r.o)

\* the deferred function of Reconcile applied to outcome r of the pass body
DeferredObject(r) == patchClusterSummary(reconcilePhase(r.o))

----------------------------------------------------------------------------
(* Actions *)

ApplyFinalizer(s, fin) ==
    IF fin = "added" THEN [s EXCEPT !.finalizer = TRUE]
    ELSE IF fin = "removed"
    THEN IF s.deleting THEN Gone ELSE [s EXCEPT !.finalizer = FALSE]
    ELSE s

PassRecord(r, patchErr, patched) ==
    [ branch |-> r.branch,
      trace |-> IF r.deferred THEN r.trace \o << Call("Patch", IF patched THEN "ok" ELSE "err") >>
                ELSE r.trace,
      requeue |-> r.requeue, err |-> r.err, patchErr |-> patchErr,
      patched |-> patched ]

NamespaceGetResults == {"err", IF nsTerminating THEN "terminating" ELSE "active"}

ReleaseLookups == {"err", IF release = "helm" THEN "helm" ELSE "notfound"}

PvcDeleteResults == {"err", IF pvc THEN "ok" ELSE "notfound"}

\* Reconcile after a successful Get of the resource o
PassOutcomes(o) ==
    IF o.deleting
    THEN { ReconcileDeleting(o, nsGet, lookup, helmDeleteOK, pvcDel, updOK) :
             nsGet \in NamespaceGetResults, lookup \in ReleaseLookups,
             helmDeleteOK \in BOOLEAN, pvcDel \in PvcDeleteResults, updOK \in BOOLEAN }
    ELSE ReconcileNormal(o, IF o.finalizer THEN {TRUE} ELSE BOOLEAN)

\* Reconcile when r.Client.Get fails: not found is no error
ReconcileGetFails ==
    /\ \E getErr \in {"err", "notfound"} :
          /\ (getErr = "notfound") = ~vc.exists
          /\ last' = [NoPass EXCEPT !.branch = IF getErr = "err" THEN "getError" ELSE "absent",
                                    !.err = IF getErr = "err" THEN "get failed" ELSE "",
                                    !.trace = << Call("Get", getErr) >>]
    /\ UNCHANGED <<variant, clusterKindExists, vc, nsTerminating, release, pvc, fn>>

\* one pass of Reconcile on the stored resource, deferred status step included
Reconcile ==
    /\ vc.exists
    /\ \E r \in PassOutcomes(vc), patchOK \in BOOLEAN :
          LET s1 == ApplyFinalizer(vc, r.finalizer)
              patched == r.deferred /\ patchOK
              patchErr == IF r.deferred /\ ~patchOK THEN "patch failed" ELSE ""
          IN
          /\ (~r.deferred => patchOK)
          /\ vc' = IF patched
                   THEN Patch(s1, r.before, DeferredObject(r), WithStatusObservedGeneration(r.err))
                   ELSE s1
          /\ release' = r.release
          /\ pvc' = IF Succeeded(r.trace, "Upgrade") THEN TRUE ELSE r.pvc
          /\ last' = PassRecord(r, patchErr, patched)
    /\ UNCHANGED <<variant, clusterKindExists, nsTerminating, fn>>

\* the user changes the chart settings of the spec (version, values,
\* valuesObject); the API server advances generation on a change of the spec
UserUpdateSpec ==
    /\ vc.exists /\ ~vc.deleting
    /\ vc.generation < MaxGeneration
    /\ \E v \in ChartVersions, b \in BOOLEAN :
          /\ ValidSpec(v, b)
          /\ <<v, b>> # <<vc.version, vc.valuesBoth>>
          /\ vc' = [vc EXCEPT !.version = v, !.valuesBoth = b, !.generation = @ + 1]
    /\ last' = NoPass
    /\ UNCHANGED <<variant, clusterKindExists, nsTerminating, release, pvc, fn>>

\* the API server's handling of a delete request
MarkDeleted(s) ==
    IF s.finalizer THEN [s EXCEPT !.deleting = TRUE] ELSE Gone

\* the user deletes the resource
UserDelete ==
    /\ vc.exists /\ ~vc.deleting
    /\ vc' = MarkDeleted(vc)
    /\ last' = NoPass
    /\ UNCHANGED <<variant, clusterKindExists, nsTerminating, release, pvc, fn>>

\* the namespace is deleted, and with it the resources in it
NamespaceDelete ==
    /\ ~nsTerminating
    /\ nsTerminating' = TRUE
    /\ vc' = IF vc.exists /\ ~vc.deleting THEN MarkDeleted(vc) ELSE vc
    /\ last' = NoPass
    /\ UNCHANGED <<variant, clusterKindExists, release, pvc, fn>>

\* the CAPI cluster controller sets the owner reference of kind Cluster
SetOwnerReference ==
    /\ clusterKindExists
    /\ vc.exists /\ ~vc.ownerCluster
    /\ vc' = [vc EXCEPT !.ownerCluster = TRUE]
    /\ last' = NoPass
    /\ UNCHANGED <<variant, clusterKindExists, nsTerminating, release, pvc, fn>>

Next ==
    \/ ReconcileGetFails
    \/ Reconcile
    \/ UserUpdateSpec
    \/ UserDelete
    \/ NamespaceDelete
    \/ SetOwnerReference

Spec == Init /\ [][Next]_vars

----------------------------------------------------------------------------
(* Helper functions of the reconcilers, applied to enumerated arguments *)

\* strings.HasPrefix
HasPrefix(str, prefix) ==
    Len(str) >= Len(prefix) /\ SubSeq(str, 1, Len(prefix)) = prefix

\* fmt.Sprintf("%s:%d", host, port)
SprintfHostPort(host, port) == host \o ":" \o ToString(port)

RewriteServerDefaultPortOnly(server, controlPlaneHost, port) ==
    LET host == IF controlPlaneHost # ""
                THEN SprintfHostPort(controlPlaneHost, DefaultControlPlanePort)
                ELSE server
    IN  IF ~HasPrefix(host, "https://") THEN "https://" \o host ELSE host

\* the body of the loop over kubeConfig.Clusters in syncVClusterKubeconfig:
\* the server the cluster entry gets
RewriteServer(server, controlPlaneHost, port) ==
    LET host == IF controlPlaneHost # ""
                THEN IF port # 0
                     THEN SprintfHostPort(controlPlaneHost, port)
                     ELSE SprintfHostPort(controlPlaneHost, DefaultControlPlanePort)
                ELSE server
    IN  IF ~HasPrefix(host, "https://") THEN "https://" \o host ELSE host

\* the loop: every cluster entry of the loaded document is rewritten, the
\* rest of the document is what clientcmd.Load returned
RewriteKubeConfig(doc, controlPlaneHost, port) ==
    [doc EXCEPT !.clusters =
        [k \in DOMAIN doc.clusters |->
            [doc.clusters[k] EXCEPT !.server = RewriteServer(@, controlPlaneHost, port)]]]

\* bootstrap kubeconfig documents with one cluster entry, as vcluster writes
\* them to the secret vc-<name>
BootstrapServers == {"https://localhost:8443", "https://10.0.0.5:443", "localhost:8443"}

BootstrapKubeConfig(server) ==
    [clusters |-> [c \in {"my-vcluster"} |->
                      [server |-> server, certificateAuthorityData |-> "ca-data"]],
     authInfos |-> [u \in {"my-vcluster"} |->
                      [clientCertificateData |-> "cert-data", clientKeyData |-> "key-data"]],
     contexts |-> [c \in {"my-vcluster"} |->
                      [cluster |-> "my-vcluster", authInfo |-> "my-vcluster"]],
     currentContext |-> "my-vcluster"]

\* values of spec.controlPlaneEndpoint.host at the rewrite: empty (discovery
\* gave no address), a name, an address, a name the user wrote with a scheme
ResolvedHosts == {"", "vcluster.example.com", "10.96.0.7", "https://vcluster.example.com"}

RewriteCalls ==
    { [op |-> "rewrite", doc |-> BootstrapKubeConfig(sv), host |-> h, port |-> p,
       done |-> FALSE, out |-> BootstrapKubeConfig(sv)]
      : sv \in BootstrapServers, h \in ResolvedHosts, p \in UserPorts }

RewriteKubeconfigCall ==
    /\ fn.op = "rewrite" /\ ~fn.done
    /\ fn' = [fn EXCEPT !.done = TRUE, !.out = RewriteKubeConfig(fn.doc, fn.host, fn.port)]
    /\ UNCHANGED <<variant, clusterKindExists, vc, nsTerminating, release, pvc, last>>

\* What client.Get of the Service <name> in <namespace> can return at one
\* poll of DiscoverHostFromService
ServiceGot(type, clusterIP, ingress) ==
    [result |-> "ok", type |-> type, clusterIP |-> clusterIP, ingress |-> ingress]

\* &corev1.Service{}
ZeroService == ServiceGot("", "", << >>)

ServiceNotFound == [ZeroService EXCEPT !.result = "notfound"]

ServiceGetError == [ZeroService EXCEPT !.result = "err"]

Ingress(hostname, ip) == [hostname |-> hostname, ip |-> ip]

ServiceSnapshots ==
    { ServiceNotFound, ServiceGetError,
      ServiceGot("ClusterIP", "10.96.0.7", << >>),
      ServiceGot("LoadBalancer", "10.96.0.7", << >>),
      ServiceGot("LoadBalancer", "10.96.0.7", << Ingress("lb.example.com", "") >>),
      ServiceGot("LoadBalancer", "10.96.0.7", << Ingress("", "203.0.113.5") >>),
      ServiceGot("LoadBalancer", "10.96.0.7", << Ingress("lb.example.com", "203.0.113.5") >>),
      ServiceGot("LoadBalancer", "10.96.0.7", << Ingress("", ""), Ingress("", "203.0.113.9") >>) }

\* the loop over service.Status.LoadBalancer.Ingress of controllers/util.go:
\* the first entry that has an address, its IP before its hostname
RECURSIVE IngressHostGeneric(_, _)
IngressHostGeneric(ingress, i) ==
    IF i > Len(ingress) THEN ""
    ELSE IF ingress[i].ip # "" THEN ingress[i].ip
    ELSE IF ingress[i].hostname # "" THEN ingress[i].hostname
    ELSE IngressHostGeneric(ingress, i + 1)

\* vcluster_controller.go looks at Ingress[0] only, its hostname before its IP
IngressHostVCluster(ingress) ==
    IF ingress[1].hostname # "" THEN ingress[1].hostname
    ELSE IF ingress[1].ip # "" THEN ingress[1].ip
    ELSE ""

\* wait.PollUntilContextTimeout with the condition function of
\* DiscoverHostFromService: polls[i] is what the i-th Get returns, the
\* deadline passes after the last of them; host and service are the
\* variables the condition function writes
RECURSIVE PollService(_, _, _, _, _)
PollService(impl, polls, i, host, service) ==
    IF i > Len(polls)
    THEN [err |-> "context deadline exceeded", host |-> host, service |-> service]
    ELSE
    LET got == polls[i] IN
    IF got.result = "notfound" THEN [err |-> "", host |-> host, service |-> service]
    ELSE IF got.result = "err" THEN [err |-> "get failed", host |-> host, service |-> service]
    ELSE IF got.type # "LoadBalancer" THEN [err |-> "", host |-> host, service |-> got]
    ELSE IF Len(got.ingress) = 0 THEN PollService(impl, polls, i + 1, host, got)
    ELSE
    LET found == IF impl = "Generic" THEN IngressHostGeneric(got.ingress, 1)
                 ELSE IngressHostVCluster(got.ingress)
        h == IF found # "" THEN found ELSE host
    IN  IF h = "" THEN PollService(impl, polls, i + 1, h, got)
        ELSE [err |-> "", host |-> h, service |-> got]

\* DiscoverHostFromService of controllers/util.go (impl "Generic") and of
\* controllers/vcluster_controller.go (impl "VCluster")
DiscoverHostFromService(impl, polls) ==
    LET p == PollService(impl, polls, 1, "", ZeroService) IN
    IF p.err # "" THEN [host |-> "", err |-> "can not get vcluster service"]
    ELSE IF p.host # "" THEN [host |-> p.host, err |-> ""]
    ELSE IF impl = "Generic" THEN [host |-> p.service.clusterIP, err |-> ""]
    ELSE [host |-> "name.namespace", err |-> ""]

\* the sequences of n elements of S
RECURSIVE Tuples(_, _)
Tuples(S, n) ==
    IF n = 0 THEN { << >> }
    ELSE { << x >> \o t : x \in S, t \in Tuples(S, n - 1) }

DiscoverCalls ==
    { [op |-> "discover", polls |-> ps, done |-> FALSE, out |-> [host |-> "", err |-> ""]]
      : ps \in Tuples(ServiceSnapshots, MaxPolls) }

\* one call of DiscoverHostFromService, of the reconciler that runs
DiscoverHostCall ==
    /\ fn.op = "discover" /\ ~fn.done
    /\ fn' = [fn EXCEPT !.done = TRUE, !.out = DiscoverHostFromService(variant, fn.polls)]
    /\ UNCHANGED <<variant, clusterKindExists, vc, nsTerminating, release, pvc, last>>

\* a condition type of another controller
ForeignCondition == "ExternalCheck"

\* patch.WithOwnedConditions of patchCluster
OwnedConditions ==
    {ReadyCondition, KubeconfigReadyCondition, ControlPlaneInitializedCondition,
     HelmChartDeployedCondition, InfrastructureClusterSyncedCondition}

\* The conditions part of patchHelper.Patch: the difference between before
\* (the object when the helper was created) and after (the object now) is
\* applied, type by type, to latest (the object in storage at the patch).  A
\* type the pass did not change keeps its latest value.  A type the pass
\* changed takes the pass's value; if someone else changed it too, to a
\* third value, that is a conflict, which is ignored for the owned types and
\* rejects the patch for the others.
PatchConditions(before, after, latest, owned) ==
    LET changed == { t \in DOMAIN after : after[t] # before[t] }
        conflicts == { t \in changed \ owned : latest[t] # before[t] /\ latest[t] # after[t] }
    IN  IF conflicts # {}
        THEN [conditions |-> latest, err |-> "conflict"]
        ELSE [conditions |-> [t \in DOMAIN latest |->
                                 IF t \in changed THEN after[t] ELSE latest[t]],
              err |-> ""]

patchClusterReplacingConditions(before, after, latest) ==
    [conditions |-> patchClusterSummary(after).conditions, err |-> ""]

\* patchCluster: the Ready summary, then the patch with the owned conditions
patchCluster(before, after, latest) ==
    PatchConditions(before.conditions, patchClusterSummary(after).conditions,
                    latest.conditions, OwnedConditions)

\* condition values a stored resource can carry
ConditionValues ==
    {AbsentCondition, TrueCondition, FalseCondition("CheckFailed", "Warning", "probe")}

\* an object with KubeconfigReady kr and the foreign condition f
ObjectWithConditions(kr, f) ==
    [conditions |-> [t \in ConditionTypes \cup {ForeignCondition} |->
                        IF t = KubeconfigReadyCondition THEN kr
                        ELSE IF t = ForeignCondition THEN f
                        ELSE AbsentCondition]]

\* the object the pass read (before), the object the pass computed (after:
\* KubeconfigReady set by the pass, the foreign condition as read) and the
\* object in storage when the deferred patch runs (latest)
PatchCalls ==
    { [op |-> "patch", before |-> ObjectWithConditions(krBefore, fBefore),
       after |-> ObjectWithConditions(krAfter, fBefore),
       latest |-> ObjectWithConditions(krLatest, fLatest),
       done |-> FALSE, out |-> [conditions |-> ObjectWithConditions(krLatest, fLatest).conditions,
                                err |-> ""]]
      : krBefore \in ConditionValues, krAfter \in ConditionValues,
        krLatest \in ConditionValues, fBefore \in ConditionValues,
        fLatest \in ConditionValues }

PatchClusterCall ==
    /\ fn.op = "patch" /\ ~fn.done
    /\ fn' = [fn EXCEPT !.done = TRUE, !.out = patchCluster(fn.before, fn.after, fn.latest)]
    /\ UNCHANGED <<variant, clusterKindExists, vc, nsTerminating, release, pvc, last>>

\* Values maps (map[string]interface{}).  A value is a leaf (anything that
\* is not a map[string]interface{}) or a map.  As an argument a map is a
\* tree: a function from its keys to values, a map value holding the map.  In
\* memory a map is a cell of the heap, a map value holding the address of
\* the cell, so that two maps can share a nested map and a write to a cell
\* is seen through every reference to it.
NoMap == [k \in {} |-> 0]

Leaf(n) == [kind |-> "leaf", n |-> n, m |-> NoMap]

\* a map value of a tree
MapValue(m) == [kind |-> "map", n |-> 0, m |-> m]

\* a map value of a heap cell
MapRef(addr) == [kind |-> "map", n |-> addr, m |-> NoMap]

MapKeys == <<"x", "y">>

\* the maps with keys among keySet and values among valueSet
MapsOver(keySet, valueSet) ==
    UNION { [ks -> valueSet] : ks \in SUBSET keySet }

\* maps of three levels whose leaves are among leaves
InnerMaps(leaves) == MapsOver({"x", "y"}, leaves)

MiddleMaps(leaves) ==
    MapsOver({"x", "y"}, leaves \cup { MapValue(m) : m \in InnerMaps(leaves) })

ValuesMaps(leaves) ==
    MapsOver({"a"}, leaves \cup { MapValue(m) : m \in MiddleMaps(leaves) })

\* the leaves of the default values and those of the user's values
DefaultLeaves == { Leaf(n) : n \in 1..MaxLeaf }

UserLeaves == { Leaf(MaxLeaf + n) : n \in 1..MaxLeaf }

\* the keys of m in the order the loops of the model visit them
RECURSIVE KeysFrom(_, _, _)
KeysFrom(m, order, i) ==
    IF i > Len(order) THEN << >>
    ELSE (IF order[i] \in DOMAIN m THEN << order[i] >> ELSE << >>)
         \o KeysFrom(m, order, i + 1)

KeysOf(m) == KeysFrom(m, <<"a">> \o MapKeys, 1)

\* the heap after tree has been put into it, and the address of its cell
RECURSIVE Store(_, _)
RECURSIVE StoreKeys(_, _, _, _, _)
Store(h, tree) ==
    LET at == Len(h) + 1
        h1 == Append(h, NoMap)
    IN  StoreKeys(h1, at, tree, KeysOf(tree), 1)

StoreKeys(h, at, tree, keys, i) ==
    IF i > Len(keys) THEN [h |-> h, addr |-> at]
    ELSE
    LET k == keys[i]
        v == tree[k]
        child == Store(h, v.m)
        h1 == IF v.kind = "map" THEN child.h ELSE h
        stored == IF v.kind = "map" THEN MapRef(child.addr) ELSE v
        cell == [j \in DOMAIN h1[at] \cup {k} |-> IF j = k THEN stored ELSE h1[at][j]]
    IN  StoreKeys([h1 EXCEPT ![at] = cell], at, tree, keys, i + 1)

\* the tree that the cell at addr holds
RECURSIVE Load(_, _)
Load(h, addr) ==
    [k \in DOMAIN h[addr] |->
        IF h[addr][k].kind = "map" THEN MapValue(Load(h, h[addr][k].n)) ELSE h[addr][k]]

NewMapAliasing(h, a) == [h |-> h, addr |-> a]

\* out := make(map[string]interface{}, len(a)); for k, v := range a { out[k] = v }
NewMapFrom(h, a) == [h |-> Append(h, h[a]), addr |-> Len(h) + 1]

\* out[k] = v
SetKey(h, out, k, v) ==
    [h EXCEPT ![out] = [j \in DOMAIN h[out] \cup {k} |-> IF j = k THEN v ELSE h[out][j]]]

\* mergeMaps(a, b): a holds the defaults, b the user's values
RECURSIVE mergeMaps(_, _, _)
RECURSIVE mergeMapsRange(_, _, _, _, _)
mergeMaps(h, a, b) ==
    LET new == NewMapFrom(h, a)
    IN  mergeMapsRange(new.h, new.addr, b, KeysOf(h[b]), 1)

\* for k, v := range b
mergeMapsRange(h, out, b, keys, i) ==
    IF i > Len(keys) THEN [h |-> h, addr |-> out]
    ELSE
    LET k == keys[i]
        v == h[b][k]
        bothMaps == v.kind = "map" /\ k \in DOMAIN h[out] /\ h[out][k].kind = "map"
        merged == mergeMaps(h, h[out][k].n, v.n)
    IN  IF bothMaps
        THEN mergeMapsRange(SetKey(merged.h, out, k, MapRef(merged.addr)), out, b, keys, i + 1)
        ELSE mergeMapsRange(SetKey(h, out, k, v), out, b, keys, i + 1)

MergeCalls ==
    { [op |-> "mergeMaps", defaults |-> d, user |-> u, done |-> FALSE,
       heap |-> << >>, a |-> 0, b |-> 0, after |-> << >>, out |-> 0]
      : d \in ValuesMaps(DefaultLeaves), u \in ValuesMaps(UserLeaves) }

\* finalValues := mergeMaps(defaultValues, valuesObj), the two arguments
\* being maps of their own in memory
MergeMapsCall ==
    /\ fn.op = "mergeMaps" /\ ~fn.done
    /\ LET sa == Store(<< >>, fn.defaults)
           sb == Store(sa.h, fn.user)
           r == mergeMaps(sb.h, sa.addr, sb.addr)
       IN  fn' = [fn EXCEPT !.done = TRUE, !.heap = sb.h, !.a = sa.addr, !.b = sb.addr,
                            !.after = r.h, !.out = r.addr]
    /\ UNCHANGED <<variant, clusterKindExists, vc, nsTerminating, release, pvc, last>>

\* The secrets of the namespace that carry a release, with the labels Helm's
\* storage driver gives its release secrets; owner "" is a secret without an
\* owner label
ReleaseNames == {"my-vcluster", "other"}

SecretOwners == {"helm", "someone-else", ""}

ReleaseSecrets ==
    [name : ReleaseNames, owner : SecretOwners, version : 1..MaxVersion]

\* Secrets.List: the secrets that match the given name label and owner=helm,
\* decoded; listOK: the List call of the API server succeeds
SecretsList(secrets, name, listOK) ==
    IF ~listOK THEN [err |-> "err", list |-> {}]
    ELSE [err |-> "", list |-> { x \in secrets : x.name = name /\ x.owner = "helm" }]

\* mutation of SecretsGet: the name label is not put into the selector
SecretsGetAnyName(secrets, name, listOK) ==
    LET l == IF listOK
             THEN [err |-> "", list |-> { x \in secrets : x.owner = "helm" }]
             ELSE [err |-> "err", list |-> {}]
    IN  IF l.err # "" THEN [err |-> "err", found |-> FALSE, release |-> << >>]
        ELSE IF l.list = {} THEN [err |-> "notfound", found |-> FALSE, release |-> << >>]
        ELSE [err |-> "", found |-> TRUE,
              release |-> CHOOSE x \in l.list : \A y \in l.list : y.version <= x.version]

\* Secrets.Get: the release of the highest version among those listed
SecretsGet(secrets, name, listOK) ==
    LET l == SecretsList(secrets, name, listOK)
    IN  IF l.err # "" THEN [err |-> "err", found |-> FALSE, release |-> << >>]
        ELSE IF l.list = {} THEN [err |-> "notfound", found |-> FALSE, release |-> << >>]
        ELSE [err |-> "", found |-> TRUE,
              release |-> CHOOSE x \in l.list : \A y \in l.list : y.version <= x.version]

\* what deleteHelmChart sees of the result of helmSecrets.Get
ReleaseLookup(get) ==
    IF ~get.found THEN get.err
    ELSE IF get.release.owner = "helm" THEN "helm" ELSE "unlabelled"

\* a resource under deletion whose namespace stays
DeletingResource ==
    [NewResource("", 0, "0.19", FALSE, FALSE) EXCEPT !.deleting = TRUE, !.finalizer = TRUE]

\* the deletion branch of Reconcile for the resource my-vcluster, over the
\* secrets of its namespace
Teardown(secrets, listOK, helmDeleteOK, pvcDel, updOK) ==
    LET r == ReconcileDeleting(DeletingResource, "active",
                               ReleaseLookup(SecretsGet(secrets, "my-vcluster", listOK)),
                               helmDeleteOK, pvcDel, updOK)
    IN  [trace |-> r.trace, err |-> r.err, finalizer |-> r.finalizer]

SecretSets == { ss \in SUBSET ReleaseSecrets : Cardinality(ss) <= MaxSecrets }

TeardownCalls ==
    { [op |-> "teardown", secrets |-> ss, listOK |-> l, helmDeleteOK |-> h,
       pvcDel |-> pd, updOK |-> u, done |-> FALSE,
       out |-> [trace |-> << >>, err |-> "", finalizer |-> "keep"]]
      : ss \in SecretSets, l \in BOOLEAN, h \in BOOLEAN, pd \in {"ok", "notfound", "err"},
        u \in BOOLEAN }

\* one deletion pass
TeardownCall ==
    /\ fn.op = "teardown" /\ ~fn.done
    /\ fn' = [fn EXCEPT !.done = TRUE,
                        !.out = Teardown(fn.secrets, fn.listOK, fn.helmDeleteOK,
                                         fn.pvcDel, fn.updOK)]
    /\ UNCHANGED <<variant, clusterKindExists, vc, nsTerminating, release, pvc, last>>

\* GenericReconciler.patchInfrastructureCluster (controllers/util.go), over
\* the owner references of the resource, the parent object and the
\* infrastructure object it refers to

skipInfrastructureClusterAnnotation == "vcluster.loft.sh/skip-infrastructure-cluster-patch"

InfrastructureGroupVersion == "infrastructure.cluster.x-k8s.io/v1alpha1"
ControlplaneGroupVersion == "controlplane.cluster.x-k8s.io/v1alpha1"

OwnerRef(kind, controller) == [kind |-> kind, controller |-> controller]

\* owner reference lists; the API server admits one controller reference
OwnerReferenceLists ==
    { << >>,
      << OwnerRef("Cluster", TRUE) >>,
      << OwnerRef("Cluster", FALSE) >>,
      << OwnerRef("VClusterControlPlane", TRUE) >>,
      << OwnerRef("VClusterControlPlane", TRUE), OwnerRef("Cluster", FALSE) >>,
      << OwnerRef("Cluster", FALSE), OwnerRef("VClusterControlPlane", TRUE) >> }

\* the loop of the owner gate of Reconcile: some reference has Kind "Cluster"
HasClusterOwner(refs) == \E i \in 1..Len(refs) : refs[i].kind = "Cluster"

NoOwnerRef == OwnerRef("", FALSE)

\* metav1.GetControllerOf: the first reference whose Controller is true
GetControllerOf(refs) ==
    LET is == { i \in 1..Len(refs) : refs[i].controller }
    IN  IF is = {} THEN NoOwnerRef ELSE refs[CHOOSE i \in is : \A j \in is : i <= j]

InfraKinds ==
    {"VCluster", "OpenStackCluster", "KubevirtCluster", "NutanixCluster", "PacketCluster",
     "DockerCluster"}

InfraApiVersions ==
    {InfrastructureGroupVersion, ControlplaneGroupVersion,
     "infrastructure.cluster.x-k8s.io/v1beta1"}

\* the kinds whose status.ready the controller sets
NeedsStatusReady(kind) == kind \in {"KubevirtCluster", "NutanixCluster", "PacketCluster"}

\* the infrastructure object, as far as the patch touches it
NewInfraObject ==
    [controlPlaneEndpoint |-> [set |-> FALSE, host |-> "", port |-> 0],
     apiServerFixedIP |-> "", apiServerPort |-> 0, ready |-> FALSE]

\* the point at which a call of patchInfrastructureCluster fails, if reached
InfraFailures ==
    {"none", "parentGet", "refApiVersion", "refKind", "refName", "infraGet", "newHelper",
     "specNotMap", "statusNotMap", "infraPatch"}

\* mutation of SetEndpoint: every kind gets spec.controlPlaneEndpoint
SetEndpointSameForAll(obj, kind, host, port) ==
    [obj EXCEPT !.controlPlaneEndpoint = [set |-> TRUE, host |-> host, port |-> port]]

\* the first switch: where the endpoint is written
SetEndpoint(obj, kind, host, port) ==
    IF kind = "OpenStackCluster"
    THEN [obj EXCEPT !.apiServerFixedIP = host, !.apiServerPort = port]
    ELSE [obj EXCEPT !.controlPlaneEndpoint = [set |-> TRUE, host |-> host, port |-> port]]

\* mutation of IsSelfReference: only the infrastructure group counts
IsSelfReferenceInfrastructureOnly(r) ==
    r.kind = "VCluster" /\ r.apiVersion = InfrastructureGroupVersion

\* the infrastructure cluster is a vcluster: nothing to patch
IsSelfReference(r) ==
    r.kind = "VCluster"
        /\ (r.apiVersion = InfrastructureGroupVersion \/ r.apiVersion = ControlplaneGroupVersion)

InfraResult(err, em, trace, stored) ==
    [err |-> err, externalManaged |-> em, trace |-> trace, infra |-> stored]

\* patchInfrastructureCluster.  cke: r.clusterKindExists; skip: the value of
\* the skip annotation; refs: the owner references; ref: spec.infrastructureRef
\* of the parent; em: status.externalManagedControlPlane before the call
PatchInfrastructureClusterSteps(cke, skip, refs, ref, host, port, em, fail) ==
    IF ~cke \/ skip = "true" THEN InfraResult("", em, << >>, NewInfraObject)
    ELSE
    LET ownerRef == GetControllerOf(refs) IN
    IF ownerRef = NoOwnerRef
    THEN InfraResult("no controller owner reference found", em, << >>, NewInfraObject)
    ELSE
    LET t0 == << Call("ParentGet:" \o ownerRef.kind, IF fail = "parentGet" THEN "err" ELSE "ok") >>
        \* an owner that is no Cluster has no spec.infrastructureRef
        r == IF ownerRef.kind = "Cluster" THEN ref ELSE [apiVersion |-> "", kind |-> "", name |-> ""]
    IN
    IF fail = "parentGet"
    THEN InfraResult("failed to get parent cluster", em, t0, NewInfraObject)
    ELSE IF fail = "refApiVersion"
    THEN InfraResult("failed to get infrastructure cluster api version", em, t0, NewInfraObject)
    ELSE IF fail = "refKind"
    THEN InfraResult("failed to get infrastructure cluster kind", em, t0, NewInfraObject)
    ELSE IF IsSelfReference(r)
    THEN InfraResult("", em, t0, NewInfraObject)
    ELSE IF fail = "refName"
    THEN InfraResult("failed to get infrastructure cluster name", TRUE, t0, NewInfraObject)
    ELSE
    LET getFails == fail = "infraGet" \/ r.name = ""
        t1 == t0 \o << Call("InfraGet:" \o r.kind, IF getFails THEN "err" ELSE "ok") >>
    IN
    IF getFails
    THEN InfraResult("failed to get infrastructure cluster", TRUE, t1, NewInfraObject)
    ELSE IF fail = "newHelper"
    THEN InfraResult("failed to create patch helper", TRUE, t1, NewInfraObject)
    ELSE IF fail = "specNotMap"
    THEN InfraResult((IF r.kind = "OpenStackCluster"
                      THEN "unable to patch api server fixed ip for "
                      ELSE "unable to patch control plane endpoint for ") \o r.kind,
                     TRUE, t1, NewInfraObject)
    ELSE
    LET o1 == SetEndpoint(NewInfraObject, r.kind, host, port) IN
    IF NeedsStatusReady(r.kind) /\ fail = "statusNotMap"
    THEN InfraResult("unable to patch status.ready for " \o r.kind, TRUE, t1, NewInfraObject)
    ELSE
    LET o2 == IF NeedsStatusReady(r.kind) THEN [o1 EXCEPT !.ready = TRUE] ELSE o1
        t2 == t1 \o << Call("InfraPatch", IF fail = "infraPatch" THEN "err" ELSE "ok") >>
    IN
    IF fail = "infraPatch"
    THEN InfraResult("patch failed", TRUE, t2, NewInfraObject)
    ELSE InfraResult("", TRUE, t2, o2)

InfraRefs ==
    { [apiVersion |-> a, kind |-> k, name |-> "my-infra"] : a \in InfraApiVersions, k \in InfraKinds }

\* calls made in Normal state: with clusterKindExists the owner gate of
\* Reconcile has found a reference of kind Cluster
InfraCalls ==
    { c \in { [op |-> "infra", cke |-> cke, skip |-> sk, refs |-> refs, ref |-> ref,
               host |-> "10.96.0.7", port |-> p, fail |-> f, em |-> em, done |-> FALSE,
               out |-> InfraResult("", em, << >>, NewInfraObject)]
              : cke \in BOOLEAN, em \in BOOLEAN, sk \in {"", "true", "false"},
                refs \in OwnerReferenceLists, ref \in InfraRefs,
                p \in {DefaultControlPlanePort, 8443}, f \in InfraFailures }
        : c.cke => HasClusterOwner(c.refs) }

\* one call of patchInfrastructureCluster
PatchInfrastructureClusterCall ==
    /\ fn.op = "infra" /\ ~fn.done
    /\ fn' = [fn EXCEPT !.done = TRUE,
                        !.out = PatchInfrastructureClusterSteps(
                                    fn.cke, fn.skip, fn.refs, fn.ref, fn.host, fn.port,
                                    fn.em, fn.fail)]
    /\ UNCHANGED <<variant, clusterKindExists, vc, nsTerminating, release, pvc, last>>

\* The endpoint a pass uses after a successful kubeconfig sync: the server
\* written to the kubeconfig Secret, the URL of the readyz request and the
\* endpoint patchInfrastructureCluster writes.  host, port: the spec when the
\* pass starts; discovered: what DiscoverHostFromService returns if called;
\* server: the server of the bootstrap kubeconfig
EndpointTargets(host, port, discovered, server) ==
    LET discovers == host = ""
        controlPlaneHost == IF discovers THEN discovered ELSE host
        specHost == controlPlaneHost
        specPort == IF discovers /\ port = 0 THEN DefaultControlPlanePort ELSE port
    IN  [specHost |-> specHost, specPort |-> specPort,
         secretServer |-> RewriteServer(server, controlPlaneHost, specPort),
         readyzURL |-> "https://" \o SprintfHostPort(specHost, specPort) \o "/readyz",
         infraHost |-> specHost, infraPort |-> specPort]

NoTargets ==
    [specHost |-> "", specPort |-> 0, secretServer |-> "", readyzURL |-> "",
     infraHost |-> "", infraPort |-> 0]

EndpointCalls ==
    { [op |-> "endpoint", host |-> h, port |-> p, discovered |-> d, server |-> sv,
       done |-> FALSE, out |-> NoTargets]
      : h \in UserHosts, p \in UserPorts, d \in {"", "10.96.0.7", "lb.example.com"},
        sv \in BootstrapServers }

\* the endpoint handling of one pass of either reconciler
EndpointCall ==
    /\ fn.op = "endpoint" /\ ~fn.done
    /\ fn' = [fn EXCEPT !.done = TRUE,
                        !.out = EndpointTargets(fn.host, fn.port, fn.discovered, fn.server)]
    /\ UNCHANGED <<variant, clusterKindExists, vc, nsTerminating, release, pvc, last>>

\* clusterv1.APIEndpoint
APIEndpoint(host, port) == [host |-> host, port |-> port]

\* VNodeClusterReconciler.reconcileNormal: the endpoint is assigned from the
\* VNodeCluster's own fields when the Cluster names a host; status.ready
VNodeReconcileNormal(vNodeCluster, regularCluster) ==
    LET endpoint == IF regularCluster.controlPlaneEndpoint.host # ""
                    THEN APIEndpoint(vNodeCluster.controlPlaneEndpoint.host,
                                     vNodeCluster.controlPlaneEndpoint.port)
                    ELSE vNodeCluster.controlPlaneEndpoint
    IN  [vNodeCluster EXCEPT !.controlPlaneEndpoint = endpoint, !.ready = TRUE]

VNodeCalls ==
    { [op |-> "vnode",
       vNodeCluster |-> [controlPlaneEndpoint |-> APIEndpoint(vh, vp), ready |-> rd],
       regularCluster |-> [controlPlaneEndpoint |-> APIEndpoint(ch, cp)],
       done |-> FALSE,
       out |-> [controlPlaneEndpoint |-> APIEndpoint(vh, vp), ready |-> rd]]
      : vh \in {"", "vnode.example"}, vp \in {0, 8443}, rd \in BOOLEAN,
        ch \in {"", "cluster.example"}, cp \in {0, 6443} }

\* one call of reconcileNormal
VNodeReconcileNormalCall ==
    /\ fn.op = "vnode" /\ ~fn.done
    /\ fn' = [fn EXCEPT !.done = TRUE,
                        !.out = VNodeReconcileNormal(fn.vNodeCluster, fn.regularCluster)]
    /\ UNCHANGED <<variant, clusterKindExists, vc, nsTerminating, release, pvc, last>>

HelperCalls ==
    RewriteCalls \cup DiscoverCalls \cup PatchCalls \cup MergeCalls \cup TeardownCalls
        \cup InfraCalls \cup EndpointCalls \cup VNodeCalls

InitHelpers ==
    /\ fn \in HelperCalls
    \* the two reconcilers differ in DiscoverHostFromService only
    /\ variant \in IF fn.op \in {"discover", "endpoint"} THEN {"VCluster", "Generic"} ELSE {"Generic"}
    /\ clusterKindExists = FALSE
    /\ vc = Gone
    /\ nsTerminating = FALSE
    /\ release = "none"
    /\ pvc = FALSE
    /\ last = NoPass

NextHelpers ==
    \/ RewriteKubeconfigCall
    \/ DiscoverHostCall
    \/ PatchClusterCall
    \/ MergeMapsCall
    \/ TeardownCall
    \/ PatchInfrastructureClusterCall
    \/ EndpointCall
    \/ VNodeReconcileNormalCall

SpecHelpers == InitHelpers /\ [][NextHelpers]_vars

----------------------------------------------------------------------------
(* serviceCIDR.GetServiceCIDR (pkg/util/kubeconfighelper), called by          *)
(* concurrent reconcile workers on one serviceCIDR instance.  The state of    *)
(* the instance, of the workers and of the cluster is kept in fn.             *)

errorMessageFind == "The range of valid IPs is "

\* strings.Index, counted from 1; 0 where Go gives -1
StringIndex(str, sub) ==
    LET hits == { i \in 1..(Len(str) - Len(sub) + 1) : SubSeq(str, i, i + Len(sub) - 1) = sub }
    IN  IF hits = {} THEN 0 ELSE CHOOSE i \in hits : \A j \in hits : i <= j

RECURSIVE TrimLeft(_)
TrimLeft(str) ==
    IF Len(str) > 0 /\ SubSeq(str, 1, 1) = " " THEN TrimLeft(SubSeq(str, 2, Len(str))) ELSE str

RECURSIVE TrimRight(_)
TrimRight(str) ==
    IF Len(str) > 0 /\ SubSeq(str, Len(str), Len(str)) = " "
    THEN TrimRight(SubSeq(str, 1, Len(str) - 1)) ELSE str

\* strings.TrimSpace
TrimSpace(str) == TrimRight(TrimLeft(str))

Workers == {"w1", "w2"}

\* what the API server answers to the Create of a Service with ClusterIP
\* 4.4.4.4: "" (created: the address is in the cluster's range), the
\* validation error that names the range, or another error
CreateAnswers(inRange) ==
    IF inRange THEN {"", "services is forbidden"}
    ELSE {"spec.clusterIPs: Invalid value: failed to allocate IP 4.4.4.4: the provided IP is not in the valid range. The range of valid IPs is 10.96.0.0/12 ",
          "services is forbidden"}

\* the part of GetServiceCIDR after the Create: the new value of
\* s.serviceCIDR and what the call returns
AfterCreate(cached, errorMessage) ==
    IF errorMessage = ""
    THEN [cached |-> cached, val |-> "", err |-> "couldn't find cluster service cidr"]
    ELSE LET i == StringIndex(errorMessage, errorMessageFind) IN
         IF i = 0
         THEN [cached |-> cached, val |-> "", err |-> "couldn't find cluster service cidr (" \o errorMessage \o ")"]
         ELSE LET c == TrimSpace(SubSeq(errorMessage, i + Len(errorMessageFind), Len(errorMessage)))
              IN  [cached |-> c, val |-> c, err |-> ""]

InitCIDR ==
    /\ \E inRange \in BOOLEAN :
          fn = [op |-> "cidr", inRange |-> inRange,
                pc |-> [w \in Workers |-> "idle"],
                calls |-> [w \in Workers |-> 0],
                mutex |-> "",
                serviceCIDR |-> "",
                services |-> 0,
                creates |-> 0,
                returned |-> {},
                createdAfterReturn |-> FALSE]
    /\ variant = "Generic"
    /\ clusterKindExists = FALSE
    /\ vc = Gone
    /\ nsTerminating = FALSE
    /\ release = "none"
    /\ pvc = FALSE
    /\ last = NoPass

CIDRFrame == UNCHANGED <<variant, clusterKindExists, vc, nsTerminating, release, pvc, last>>

\* a worker calls GetServiceCIDR
CIDRCall(w) ==
    /\ fn.pc[w] = "idle" /\ fn.calls[w] < MaxCalls
    /\ fn' = [fn EXCEPT !.pc[w] = "lock", !.calls[w] = @ + 1]
    /\ CIDRFrame

\* s.serviceCIDRMutex.Lock()
CIDRLock(w) ==
    /\ fn.pc[w] = "lock" /\ fn.mutex = ""
    /\ fn' = [fn EXCEPT !.pc[w] = "check", !.mutex = w]
    /\ CIDRFrame

\* if s.serviceCIDR != "" return it; else the Create request is sent
CIDRCheck(w) ==
    /\ fn.pc[w] = "check"
    /\ fn' = IF fn.serviceCIDR # ""
             THEN [fn EXCEPT !.pc[w] = "unlock", !.returned = @ \cup {fn.serviceCIDR}]
             ELSE [fn EXCEPT !.pc[w] = "create", !.creates = @ + 1,
                             !.createdAfterReturn = @ \/ fn.returned # {}]
    /\ CIDRFrame

\* the answer to the Create arrives and the call computes its result
CIDRCreateReturns(w) ==
    /\ fn.pc[w] = "create"
    /\ \E answer \in CreateAnswers(fn.inRange) :
          LET r == AfterCreate(fn.serviceCIDR, answer) IN
          fn' = [fn EXCEPT !.pc[w] = "unlock",
                           !.services = IF answer = "" THEN @ + 1 ELSE @,
                           !.serviceCIDR = r.cached,
                           !.returned = IF r.err = "" THEN @ \cup {r.val} ELSE @]
    /\ CIDRFrame

\* the deferred s.serviceCIDRMutex.Unlock()
CIDRUnlock(w) ==
    /\ fn.pc[w] = "unlock"
    /\ fn' = [fn EXCEPT !.pc[w] = "idle", !.mutex = ""]
    /\ CIDRFrame

NextCIDR ==
    \E w \in Workers :
        \/ CIDRCall(w)
        \/ CIDRLock(w)
        \/ CIDRCheck(w)
        \/ CIDRCreateReturns(w)
        \/ CIDRUnlock(w)

SpecCIDR == InitCIDR /\ [][NextCIDR]_vars

----------------------------------------------------------------------------
(* A reconcile pass racing with the user's spec updates.  The pass reads the  *)
(* resource (r.Client.Get), works on its copy, and writes with the deferred   *)
(* patch; the user's update can fall between the two.  The pass in flight and *)
(* the record of the last successful Upgrade are kept in fn.                  *)

ChartOf(o) == [version |-> o.version, valuesBoth |-> o.valuesBoth]

NothingInstalled == [generation |-> 0, chart |-> ChartOf(Gone)]

NoPassInFlight == [o |-> Gone, before |-> Gone, err |-> "", deferred |-> FALSE]

InitRace ==
    /\ variant \in {"VCluster", "Generic"}
    /\ clusterKindExists = FALSE
    /\ \E h \in UserHosts, v \in ChartVersions, b \in BOOLEAN :
          /\ ValidSpec(v, b)
          /\ vc = NewResource(h, DefaultControlPlanePort, v, b, FALSE)
    /\ nsTerminating = FALSE
    /\ release = "none"
    /\ pvc = FALSE
    /\ last = NoPass
    /\ fn = [op |-> "race", pc |-> "idle", pass |-> NoPassInFlight,
             installed |-> NothingInstalled, raced |-> FALSE]

\* Reconcile from r.Client.Get to the return of its body: the calls are made
\* on the copy read, the finalizer update right after the read.
RaceBody ==
    /\ fn.pc = "idle" /\ vc.exists
    /\ \E r \in PassOutcomes(vc) :
          /\ vc' = ApplyFinalizer(vc, r.finalizer)
          /\ release' = r.release
          /\ pvc' = IF Succeeded(r.trace, "Upgrade") THEN TRUE ELSE r.pvc
          /\ fn' = [fn EXCEPT
                       !.pc = IF r.deferred THEN "deferred" ELSE "idle",
                       !.pass = IF r.deferred
                                THEN [o |-> r.o, before |-> r.before, err |-> r.err,
                                      deferred |-> TRUE]
                                ELSE NoPassInFlight,
                       !.installed = IF Succeeded(r.trace, "Upgrade")
                                     THEN [generation |-> vc.generation, chart |-> ChartOf(vc)]
                                     ELSE @]
    /\ UNCHANGED <<variant, clusterKindExists, nsTerminating, last>>

\* the deferred function of the pass in flight: reconcilePhase, patchCluster
RacePatch ==
    /\ fn.pc = "deferred"
    /\ \E patchOK \in BOOLEAN :
          vc' = IF patchOK /\ vc.exists
                THEN Patch(vc, fn.pass.before, DeferredObject(fn.pass),
                           WithStatusObservedGeneration(fn.pass.err))
                ELSE vc
    /\ fn' = [fn EXCEPT !.pc = "idle", !.pass = NoPassInFlight]
    /\ UNCHANGED <<variant, clusterKindExists, nsTerminating, release, pvc, last>>

\* the user changes the chart settings at any moment, also while a pass is
\* in flight
RaceUserUpdateSpec ==
    /\ vc.exists /\ ~vc.deleting
    /\ vc.generation < MaxGeneration
    /\ \E v \in ChartVersions, b \in BOOLEAN :
          /\ ValidSpec(v, b)
          /\ <<v, b>> # <<vc.version, vc.valuesBoth>>
          /\ vc' = [vc EXCEPT !.version = v, !.valuesBoth = b, !.generation = @ + 1]
    /\ fn' = [fn EXCEPT !.raced = @ \/ fn.pc = "deferred"]
    /\ UNCHANGED <<variant, clusterKindExists, nsTerminating, release, pvc, last>>

NextRace ==
    \/ RaceBody
    \/ RacePatch
    \/ RaceUserUpdateSpec

SpecRace == InitRace /\ [][NextRace]_vars

----------------------------------------------------------------------------
(* Provisioning under external conditions that hold from some point on.  A    *)
(* pass runs whenever Reconcile asked for one: every return of the Normal     *)
(* branch past the owner gate carries an error or a RequeueAfter.             *)

\* an outcome of a pass in which every external call succeeded and readyz
\* answered "ok"
AllCallsSucceeded(r) ==
    /\ r.branch = "success"
    /\ \A i \in 1..Len(r.trace) : r.trace[i].res = "ok"

InitConverge ==
    /\ variant \in {"VCluster", "Generic"}
    /\ clusterKindExists \in BOOLEAN
    \* a deployable spec, the owner reference set where it is required
    /\ \E h \in UserHosts, p \in UserPorts :
          vc = NewResource(h, p, "0.19", FALSE, clusterKindExists)
    /\ nsTerminating = FALSE
    /\ release = "none"
    /\ pvc = FALSE
    /\ last = NoPass
    /\ fn = [op |-> "converge", settled |-> FALSE, tick |-> 0]

\* a pass while the external conditions do not hold yet: any outcome.  The
\* record of the pass is not kept here.
UnsettledPass ==
    /\ fn.op = "converge" /\ ~fn.settled /\ vc.exists
    /\ \E r \in PassOutcomes(vc), patchOK \in BOOLEAN :
          LET s1 == ApplyFinalizer(vc, r.finalizer) IN
          /\ vc' = IF r.deferred /\ patchOK
                   THEN Patch(s1, r.before, DeferredObject(r), WithStatusObservedGeneration(r.err))
                   ELSE s1
          /\ release' = r.release
          /\ pvc' = IF Succeeded(r.trace, "Upgrade") THEN TRUE ELSE r.pvc
    /\ UNCHANGED <<variant, clusterKindExists, nsTerminating, last, fn>>

\* from here on the external conditions hold
Settle ==
    /\ fn.op = "converge" /\ ~fn.settled
    /\ fn' = [fn EXCEPT !.settled = TRUE]
    /\ UNCHANGED <<variant, clusterKindExists, vc, nsTerminating, release, pvc, last>>

\* a pass once the external conditions hold, the deferred patch included
SettledPass ==
    /\ fn.op = "converge" /\ fn.settled /\ vc.exists
    /\ \E r \in { x \in PassOutcomes(vc) : AllCallsSucceeded(x) } :
          /\ vc' = Patch(ApplyFinalizer(vc, r.finalizer), r.before, DeferredObject(r),
                         WithStatusObservedGeneration(r.err))
          /\ release' = r.release
          /\ pvc' = IF Succeeded(r.trace, "Upgrade") THEN TRUE ELSE r.pvc
    /\ fn' = [fn EXCEPT !.tick = 1 - @]
    /\ UNCHANGED <<variant, clusterKindExists, nsTerminating, last>>

NextConverge ==
    \/ UnsettledPass
    \/ Settle
    \/ SettledPass

SpecConverge ==
    InitConverge /\ [][NextConverge]_vars /\ WF_vars(Settle) /\ WF_vars(SettledPass)

----------------------------------------------------------------------------
(* Deletion driven by the work queue alone: a pass runs only if the queue     *)
(* holds a request, and a pass leaves a request behind only by returning an   *)
(* error or a RequeueAfter.  No watch event or resync arrives.                *)

\* the return of Reconcile makes controller-runtime queue the next pass
RetryRequested(r) == r.err # "" \/ r.requeue > 0

\* a deletion pass none of whose calls failed
NoCallFailed(r) == \A i \in 1..Len(r.trace) : r.trace[i].res # "err"

InitDelete ==
    /\ variant \in {"VCluster", "Generic"}
    /\ clusterKindExists = FALSE
    /\ \E h \in UserHosts, p \in UserPorts :
          vc = [NewResource(h, p, "0.19", FALSE, FALSE)
                    EXCEPT !.finalizer = TRUE, !.deleting = TRUE]
    /\ nsTerminating \in BOOLEAN
    /\ release \in {"none", "helm"}
    /\ pvc \in BOOLEAN
    /\ last = NoPass
    \* the delete event has queued a pass
    /\ fn = [op |-> "delete", queued |-> TRUE, settled |-> FALSE]

\* a queued deletion pass; until the external calls have settled any of
\* them may fail, afterwards none does
DeletePass ==
    /\ fn.op = "delete" /\ fn.queued /\ vc.exists
    /\ \E r \in { x \in PassOutcomes(vc) : fn.settled => NoCallFailed(x) } :
          /\ vc' = ApplyFinalizer(vc, r.finalizer)
          /\ release' = r.release
          /\ pvc' = r.pvc
          /\ last' = PassRecord(r, "", FALSE)
          /\ fn' = [fn EXCEPT !.queued = RetryRequested(r)]
    /\ UNCHANGED <<variant, clusterKindExists, nsTerminating>>

\* from here on every external call succeeds
DeleteSettle ==
    /\ fn.op = "delete" /\ ~fn.settled
    /\ fn' = [fn EXCEPT !.settled = TRUE]
    /\ UNCHANGED <<variant, clusterKindExists, vc, nsTerminating, release, pvc, last>>

NextDelete ==
    \/ DeletePass
    \/ DeleteSettle

SpecDelete ==
    InitDelete /\ [][NextDelete]_vars /\ WF_vars(DeletePass) /\ WF_vars(DeleteSettle)

----------------------------------------------------------------------------
(* Properties *)

\* the pass that just finished made call c and got result res
CallResult(trace, c, res) == \E i \in 1..Len(trace) : trace[i] = Call(c, res)

\* every call c of the pass came before every call d
CallsBefore(trace, c, d) ==
    \A i \in CallsOf(trace, c), j \in CallsOf(trace, d) : i < j

\* the deferred step of the pass that just finished wrote the stored resource
WrittenByDeferredStep == vc.exists /\ last.patched

\* the error Reconcile returns: the aggregate of reterr and the patch error
ReturnedError(p) == p.err # "" \/ p.patchErr # ""

\* C1: in every resource state written by the deferred status step,
\* status.phase is Failed if and only if some condition is False with
\* severity Error, also when the stored phase was Failed before the pass and
\* the pass cleared every error condition.
C1_FailedIffErrorCondition ==
    WrittenByDeferredStep => ((vc.phase = "Failed") <=> HasErrorCondition(vc))

\* C2: whenever a condition is False with severity Error at the end of a
\* pass, reconcilePhase has set status.phase to Failed, whatever status.ready
\* and ControlPlaneInitialized are.
C2_ErrorConditionGivesFailed ==
    (WrittenByDeferredStep /\ HasErrorCondition(vc)) => vc.phase = "Failed"

\* the case of C2 with a status.ready left true by an earlier pass
C2_FailedWithStaleReady ==
    /\ WrittenByDeferredStep
    /\ HasErrorCondition(vc)
    /\ vc.ready /\ IsTrue(vc, ControlPlaneInitializedCondition)
    /\ vc.phase = "Failed"

\* C3 as stated, for VClusterReconciler: after reconcilePhase, status.phase
\* is Deployed if and only if status.ready is true and ControlPlaneInitialized
\* is True.
C3_DeployedIffReadyAndInitialized ==
    (variant = "VCluster" /\ WrittenByDeferredStep) =>
        ((vc.phase = "Deployed") <=>
            (vc.ready /\ IsTrue(vc, ControlPlaneInitializedCondition)))

\* C3 amended: after reconcilePhase, status.phase is Deployed if and only if
\* status.ready is true, ControlPlaneInitialized is True and the phase is not
\* Failed; Failed takes precedence over Deployed.
C3_DeployedIffReadyInitializedNotFailed ==
    WrittenByDeferredStep =>
        ((vc.phase = "Deployed") <=>
            (vc.ready /\ IsTrue(vc, ControlPlaneInitializedCondition)
                /\ vc.phase # "Failed"))

\* a pass that ends Deployed
C3_DeployedReached ==
    /\ WrittenByDeferredStep
    /\ last.branch = "success"
    /\ vc.phase = "Deployed"
    /\ vc.ready /\ IsTrue(vc, ControlPlaneInitializedCondition)
    /\ ~HasErrorCondition(vc)

\* the pass that just finished invoked HelmClient.Upgrade successfully and
\* ran to its end without error; nobody has acted on the resource since
C4_CleanDeploy ==
    /\ last.branch = "success" /\ last.patched
    /\ CallResult(last.trace, "Upgrade", "ok")

\* C4: once a pass has invoked HelmClient.Upgrade successfully and completed
\* without error, the next pass on the resource, the spec of which no user
\* has changed, does not invoke HelmClient.Upgrade again, on every path,
\* endpoint write-back included.
C4_NoUpgradeAfterCleanDeploy ==
    [][ C4_CleanDeploy => ~Invoked(last'.trace, "Upgrade") ]_vars

\* the case of C5: a deletion pass whose namespace lookup returns a namespace
\* that is not terminating and whose release lookup returns a record labelled
\* owner=helm
C5_DeletionWithRelease ==
    /\ last.branch = "deleting"
    /\ CallResult(last.trace, "NamespaceGet", "active")
    /\ CallResult(last.trace, "ReleaseGet", "helm")

\* C5: in such a pass HelmClient.Delete is invoked exactly once; the calls
\* come in the order Helm delete, PVC delete, finalizer update; the finalizer
\* update is issued only after the Delete returned success and the PVC
\* delete returned success or not-found; and the resource loses its finalizer
\* (and leaves storage) only by that update.
C5_DeleteOnceThenFinalizer ==
    C5_DeletionWithRelease =>
        /\ Cardinality(CallsOf(last.trace, "HelmDelete")) = 1
        /\ CallsBefore(last.trace, "ReleaseGet", "HelmDelete")
        /\ CallsBefore(last.trace, "HelmDelete", "PvcDelete")
        /\ CallsBefore(last.trace, "PvcDelete", "UpdateFinalizer")
        /\ Invoked(last.trace, "UpdateFinalizer") =>
              /\ CallResult(last.trace, "HelmDelete", "ok")
              /\ Succeeded(last.trace, "PvcDelete")
        /\ IF CallResult(last.trace, "UpdateFinalizer", "ok")
           THEN ~vc.exists
           ELSE vc.exists /\ vc.finalizer

\* the finalizer removed by a pass that deleted the release and the PVC
C5_FinalizerRemovedAfterDelete ==
    /\ C5_DeletionWithRelease
    /\ CallResult(last.trace, "HelmDelete", "ok")
    /\ CallResult(last.trace, "PvcDelete", "ok")
    /\ ~vc.exists

\* the case of C6: a cleanup step of a deletion pass failed
C6_CleanupStepFailed ==
    /\ last.branch = "deleting"
    /\ \/ CallResult(last.trace, "ReleaseGet", "err")
       \/ CallResult(last.trace, "HelmDelete", "err")
       \/ CallResult(last.trace, "PvcDelete", "err")

\* C6: if the release lookup, HelmClient.Delete or the PVC delete of a
\* deletion pass fails, Reconcile returns that error, issues no finalizer
\* update, and the finalizer is still on the stored resource.
C6_CleanupFailureKeepsFinalizer ==
    C6_CleanupStepFailed =>
        /\ last.err = (IF CallResult(last.trace, "ReleaseGet", "err")
                       THEN "release lookup failed"
                       ELSE IF CallResult(last.trace, "HelmDelete", "err")
                       THEN "helm delete failed"
                       ELSE "pvc delete failed")
        /\ ~Invoked(last.trace, "UpdateFinalizer")
        /\ vc.exists /\ vc.deleting /\ vc.finalizer

\* the PVC delete failing after the release was deleted
C6_PvcDeleteFailed ==
    /\ last.branch = "deleting"
    /\ CallResult(last.trace, "HelmDelete", "ok")
    /\ CallResult(last.trace, "PvcDelete", "err")
    /\ vc.exists /\ vc.finalizer
    /\ release = "none"

\* the case of C7: a deletion pass whose namespace lookup returns a namespace
\* with a deletionTimestamp
C7_NamespaceTeardown ==
    /\ last.branch = "deleting"
    /\ CallResult(last.trace, "NamespaceGet", "terminating")

\* C7: in such a pass the only call after the namespace lookup is the update
\* that removes the finalizer: no release lookup, no HelmClient.Delete, no PVC
\* delete; the update takes the finalizer off the stored resource, and if the
\* update itself fails its error is returned.
C7_TeardownRemovesFinalizerOnly ==
    C7_NamespaceTeardown =>
        /\ ~Invoked(last.trace, "ReleaseGet")
        /\ ~Invoked(last.trace, "HelmDelete")
        /\ ~Invoked(last.trace, "PvcDelete")
        /\ Len(last.trace) = 2
        /\ last.trace[2].call = "UpdateFinalizer"
        /\ IF last.trace[2].res = "ok"
           THEN ~vc.exists /\ last.err = ""
           ELSE vc.exists /\ vc.finalizer /\ last.err # ""

\* the finalizer removed during namespace teardown with the release and the
\* PVC left in place
C7_RemovedWithReleaseInPlace ==
    /\ C7_NamespaceTeardown
    /\ ~vc.exists
    /\ release = "helm" /\ pvc

\* C8: status.observedGeneration of the stored resource changes only in a
\* reconcile pass that reached the deferred patch with a nil reconciliation
\* error; a pass that returns an error from redeploy or from the
\* infrastructure patch, and a pass that returns before the patch helper is
\* created, leaves it as it was.
C8_ObservedGenerationOnlyWhenNoError ==
    [][ (vc.exists /\ vc'.exists /\ vc'.observedGeneration # vc.observedGeneration)
            => /\ last'.patched
               /\ last'.err = ""
               /\ last'.branch \in {"sync", "readyz", "success"}
               /\ vc'.observedGeneration = vc.generation ]_vars

\* a pass that returned the redeploy error after an earlier pass had
\* advanced observedGeneration: the generation the user made is not observed
C8_ErrorPassLeavesObservedGeneration ==
    /\ WrittenByDeferredStep
    /\ last.branch = "redeploy" /\ last.err # ""
    /\ vc.observedGeneration = 1
    /\ vc.generation > vc.observedGeneration

C10_ReadyConditionMeansDeployed ==
    (vc.exists /\ IsTrue(vc, ReadyCondition)) =>
        (vc.phase = "Deployed" /\ vc.ready /\ ~HasErrorCondition(vc))

\* C11: a pass that reads a bootstrap kubeconfig without exactly one cluster
\* entry ends in the sync failure branch with "unexpected kube config": it
\* writes neither the kubeconfig Secret nor the CA Secret, and the resource
\* it stores has KubeconfigReady False with that message
C11_UnexpectedKubeConfigRead ==
    CallResult(last.trace, "GetVClusterKubeConfig", "clusters")

C11_UnexpectedKubeConfigWritesNoSecret ==
    C11_UnexpectedKubeConfigRead =>
        /\ last.branch = "sync"
        /\ ~Invoked(last.trace, "SecretWrite")
        /\ ~Invoked(last.trace, "CaSecretWrite")
        /\ WrittenByDeferredStep =>
              /\ ~IsTrue(vc, KubeconfigReadyCondition)
              /\ vc.conditions[KubeconfigReadyCondition].message = "unexpected kube config"

\* such a pass, in a resource whose kubeconfig was ready before
C11_RejectedAfterReady ==
    /\ C11_UnexpectedKubeConfigRead
    /\ WrittenByDeferredStep
    /\ vc.observedGeneration > 0
    /\ vc.conditions[KubeconfigReadyCondition].status = "False"

\* the pass met one of the configuration errors: no chart version, both
\* value forms set, a bootstrap kubeconfig that does not load, a bootstrap
\* kubeconfig without exactly one cluster
C12_ConfigurationError ==
    \/ last.err \in {"empty value of the .spec.HelmRelease.Version field",
                     "both values and valuesObject cannot be set"}
    \/ CallResult(last.trace, "GetVClusterCredentials", "malformed")
    \/ CallResult(last.trace, "GetVClusterKubeConfig", "clusters")

\* C12: a pass that meets a configuration error stores a condition with
\* status False and severity Error, and status.phase Failed
C12_ConfigurationErrorGivesFailed ==
    (WrittenByDeferredStep /\ C12_ConfigurationError) =>
        (HasErrorCondition(vc) /\ vc.phase = "Failed")

\* the pass met a transient failure of kubeconfig sync: the nested control
\* plane did not answer, or the Service had no address before the poll
\* deadline
C13_TransientSyncFailure ==
    \/ CallResult(last.trace, "Probe", "err")
    \/ CallResult(last.trace, "Discover", "err")

\* Helm could not install or upgrade the release, as it cannot while the
\* release is still being created
C13_HelmFailure == CallResult(last.trace, "Upgrade", "err")

C14_InfraFailureNotRecorded ==
    [][ (WrittenByDeferredStep /\ last.branch = "infra")' =>
            /\ last'.err # ""
            /\ vc'.conditions[InfrastructureClusterSyncedCondition]
                    = vc.conditions[InfrastructureClusterSyncedCondition]
            /\ vc'.phase = "Failed" => vc.phase = "Failed" ]_vars

\* C14 as amended: a pass in which patchInfrastructureCluster fails returns
\* the error without a requeue delay, and stores InfrastructureClusterSynced
\* False with reason PatchFailed, severity Error and the error as message,
\* and status.phase Failed
C14_InfraFailureReturnedAndRecorded ==
    (WrittenByDeferredStep /\ last.branch = "infra") =>
        /\ variant = "Generic"
        /\ last.err \in {"failed to get parent cluster", "failed to get infrastructure cluster"}
        /\ last.requeue = 0
        /\ vc.conditions[InfrastructureClusterSyncedCondition]
              = FalseCondition("PatchFailed", "Error", last.err)
        /\ vc.phase = "Failed"

\* the referenced infrastructure object is missing
C14_InfrastructureObjectMissing ==
    /\ WrittenByDeferredStep
    /\ last.branch = "infra"
    /\ last.err = "failed to get infrastructure cluster"
    /\ vc.phase = "Failed"
    /\ vc.externalManaged

\* the port the server URL carries
C15_Port == IF fn.port # 0 THEN fn.port ELSE DefaultControlPlanePort

\* the document differs from the bootstrap document in the server only
C15_OtherFieldsKept ==
    /\ DOMAIN fn.out.clusters = DOMAIN fn.doc.clusters
    /\ \A k \in DOMAIN fn.doc.clusters :
          fn.out.clusters[k] = [fn.doc.clusters[k] EXCEPT !.server = fn.out.clusters[k].server]
    /\ fn.out.authInfos = fn.doc.authInfos
    /\ fn.out.contexts = fn.doc.contexts
    /\ fn.out.currentContext = fn.doc.currentContext

\* C15 as stated: for a non-empty host h and port p the stored document has
\* server https://h:p (p = 443 for spec port 0) and otherwise the fields of
\* the bootstrap document
C15_ServerIsHttpsHostPort ==
    (fn.op = "rewrite" /\ fn.done /\ fn.host # "") =>
        /\ \A k \in DOMAIN fn.out.clusters :
              fn.out.clusters[k].server = "https://" \o fn.host \o ":" \o ToString(C15_Port)
        /\ C15_OtherFieldsKept

\* C15 as amended: the server is https://h:p for a host h that does not
\* start with https://, and h:p for a host that does; the other fields are
\* those of the bootstrap document
C15_ServerIsHostPortWithOneScheme ==
    (fn.op = "rewrite" /\ fn.done /\ fn.host # "") =>
        /\ \A k \in DOMAIN fn.out.clusters :
              fn.out.clusters[k].server =
                  IF HasPrefix(fn.host, "https://")
                  THEN fn.host \o ":" \o ToString(C15_Port)
                  ELSE "https://" \o fn.host \o ":" \o ToString(C15_Port)
        /\ C15_OtherFieldsKept

\* the example of the specification: host vcluster.example.com, port 8443
C15_ExampleRewritten ==
    /\ fn.op = "rewrite" /\ fn.done
    /\ fn.doc.clusters["my-vcluster"].server = "https://10.0.0.5:443"
    /\ fn.host = "vcluster.example.com" /\ fn.port = 8443
    /\ fn.out.clusters["my-vcluster"].server = "https://vcluster.example.com:8443"

\* the first Get of the call returned a LoadBalancer Service whose first
\* ingress entry carries both a hostname and an IP
C16_FirstEntryHasBoth ==
    /\ fn.op = "discover" /\ fn.done
    /\ fn.polls[1].result = "ok"
    /\ fn.polls[1].type = "LoadBalancer"
    /\ Len(fn.polls[1].ingress) > 0
    /\ fn.polls[1].ingress[1].hostname # ""
    /\ fn.polls[1].ingress[1].ip # ""

\* C16: DiscoverHostFromService then returns the IP of that entry, in both
\* implementations
C16_DiscoveryPrefersIP ==
    C16_FirstEntryHasBoth =>
        (fn.out.err = "" /\ fn.out.host = fn.polls[1].ingress[1].ip)

\* the addresses the first ingress entry of a Service carries
C17_FirstEntryAddresses(service) ==
    IF service.result = "ok" /\ service.type = "LoadBalancer" /\ Len(service.ingress) > 0
    THEN {service.ingress[1].ip, service.ingress[1].hostname} \ {""}
    ELSE {}

\* C17: autodiscovery follows the decision table and a successful call gives
\* a non-empty host: a Service that is not found or not of type LoadBalancer
\* at the first poll gives success at once; a LoadBalancer whose first
\* ingress entry has an address at the first poll gives an address of that
\* entry; a LoadBalancer that shows no ingress at any poll gives an error
C17_DiscoveryNeverEmptyOnSuccess ==
    (fn.op = "discover" /\ fn.done) =>
        /\ fn.out.err = "" => fn.out.host # ""
        /\ (fn.polls[1].result = "notfound"
               \/ (fn.polls[1].result = "ok" /\ fn.polls[1].type # "LoadBalancer"))
              => fn.out.err = ""
        /\ C17_FirstEntryAddresses(fn.polls[1]) # {}
              => (fn.out.err = "" /\ fn.out.host \in C17_FirstEntryAddresses(fn.polls[1]))
        /\ (\A i \in 1..Len(fn.polls) :
               /\ fn.polls[i].result = "ok"
               /\ fn.polls[i].type = "LoadBalancer"
               /\ fn.polls[i].ingress = << >>)
              => fn.out.err # ""

\* between the read of the pass and its deferred patch someone else added or
\* modified the foreign condition, and nothing else
C18_ForeignConditionChanged ==
    /\ fn.op = "patch" /\ fn.done
    /\ fn.latest.conditions[ForeignCondition] # fn.before.conditions[ForeignCondition]
    /\ \A t \in OwnedConditions : fn.latest.conditions[t] = fn.before.conditions[t]

\* C18: the patch is then not rejected, the stored foreign condition is the
\* one the other controller wrote, and the owned conditions are those the
\* pass computed
C18_ForeignConditionUntouched ==
    C18_ForeignConditionChanged =>
        /\ fn.out.err = ""
        /\ fn.out.conditions[ForeignCondition] = fn.latest.conditions[ForeignCondition]
        /\ \A t \in OwnedConditions :
              fn.out.conditions[t] = patchClusterSummary(fn.after).conditions[t]

\* the foreign condition was added while the pass turned KubeconfigReady True
C18_ForeignAddedDuringPass ==
    /\ C18_ForeignConditionChanged
    /\ fn.before.conditions[ForeignCondition] = AbsentCondition
    /\ fn.latest.conditions[ForeignCondition] = TrueCondition
    /\ fn.before.conditions[KubeconfigReadyCondition] # TrueCondition
    /\ fn.out.conditions[KubeconfigReadyCondition] = TrueCondition
    /\ fn.out.conditions[ReadyCondition] = TrueCondition
    /\ fn.out.conditions[ForeignCondition] = TrueCondition

\* o is the merge of defaults d and user values u as C19 describes it
RECURSIVE C19_IsMerge(_, _, _)
C19_IsMerge(o, d, u) ==
    /\ DOMAIN o = DOMAIN d \cup DOMAIN u
    /\ \A k \in DOMAIN o :
          IF k \notin DOMAIN u THEN o[k] = d[k]
          ELSE IF u[k].kind = "map" /\ k \in DOMAIN d /\ d[k].kind = "map"
          THEN o[k].kind = "map" /\ C19_IsMerge(o[k].m, d[k].m, u[k].m)
          ELSE o[k] = u[k]

\* C19: the result of mergeMaps(defaults, user) has the union of the keys, a
\* default where the user gives nothing, the user's value where it or the
\* default is no map, the recursive merge where both are maps; and the two
\* argument maps, with every map nested in them, are as they were
C19_MergeMapsUserWins ==
    (fn.op = "mergeMaps" /\ fn.done) =>
        /\ C19_IsMerge(Load(fn.after, fn.out), fn.defaults, fn.user)
        /\ \A addr \in 1..Len(fn.heap) : fn.after[addr] = fn.heap[addr]
        /\ Load(fn.after, fn.a) = fn.defaults
        /\ Load(fn.after, fn.b) = fn.user

\* the example of the specification with a third level:
\* {a: {x: 1, y: {x: 1}}} merged with {a: {x: 2, y: {y: 2}}}
C19_NestedMergeDone ==
    /\ fn.op = "mergeMaps" /\ fn.done
    /\ fn.defaults = [k \in {"a"} |-> MapValue([j \in {"x", "y"} |->
                          IF j = "x" THEN Leaf(1) ELSE MapValue([i \in {"x"} |-> Leaf(1)])])]
    /\ fn.user = [k \in {"a"} |-> MapValue([j \in {"x", "y"} |->
                          IF j = "x" THEN Leaf(2) ELSE MapValue([i \in {"y"} |-> Leaf(2)])])]
    /\ Load(fn.after, fn.out) =
          [k \in {"a"} |-> MapValue([j \in {"x", "y"} |->
              IF j = "x" THEN Leaf(2)
              ELSE MapValue([i \in {"x", "y"} |-> IF i = "x" THEN Leaf(1) ELSE Leaf(2)])])]

\* the last pass found the resource
C20_PassOnExistingResource == last.branch \notin {"none", "getError", "absent"}

----------------------------------------------------------------------------
(* C21: the pass that adds the cleanup finalizer *)

C21_NormalBranches == {"finalizer", "redeploy", "sync", "infra", "readyz", "success"}

\* the last pass ran in Normal state and found the finalizer missing
C21_PassAddsFinalizer ==
    last.branch \in C21_NormalBranches /\ Invoked(last.trace, "UpdateFinalizer")

----------------------------------------------------------------------------
(* C22: pending ownership *)

\* a step that is a reconcile pass which has read the resource
C22_PassOnReadResource ==
    vc.exists /\ last' # NoPass /\ last'.branch # "getError" /\ <<vc, last>> # <<vc', last'>>

----------------------------------------------------------------------------
(* C23: what Reconcile returns on each exit path *)

\* the last pass returned ctrl.Result{} and a nil error
C23_EmptyResult == last.err = "" /\ last.patchErr = "" /\ last.requeue = 0

C23_ResourceNotFound == last.branch = "absent"

C23_FinalizerRemoved ==
    last.branch = "deleting" /\ CallResult(last.trace, "UpdateFinalizer", "ok")

C23_NamespaceLookupFailed ==
    last.branch = "deleting" /\ CallResult(last.trace, "NamespaceGet", "err")

\* C23 as stated: every pass returns a non-nil error or a positive
\* RequeueAfter, except on the paths 'resource not found' and 'finalizer
\* removed', which return an empty result and a nil error.
C23_OnlyTerminalPathsReturnEmpty ==
    last.branch # "none" =>
        (C23_EmptyResult <=> (C23_ResourceNotFound \/ C23_FinalizerRemoved))

\* C23 as amended: the paths that return an empty result and a nil error are
\* 'resource not found', 'finalizer removed', 'pending ownership' and the
\* failed namespace lookup of the deletion branch; every other pass returns a
\* non-nil error or a RequeueAfter of 5 s or 60 s.
C23_EmptyResultPaths ==
    last.branch # "none" =>
        /\ C23_EmptyResult <=>
              \/ C23_ResourceNotFound
              \/ C23_FinalizerRemoved
              \/ last.branch = "pendingOwnership"
              \/ C23_NamespaceLookupFailed
        /\ last.requeue \in {0, RequeueShort, RequeueLong}
        /\ C23_FinalizerRemoved => ~vc.exists
        /\ C23_NamespaceLookupFailed => (vc.exists /\ vc.deleting /\ vc.finalizer)

\* a deletion pass whose Helm delete failed has returned the error, the
\* finalizer still being there
C23_DeletionRetried ==
    /\ last.branch = "deleting" /\ CallResult(last.trace, "HelmDelete", "err")
    /\ last.err # "" /\ vc.exists /\ vc.finalizer

----------------------------------------------------------------------------
(* C24: Helm delete only for a release Helm owns *)

\* the release secrets of my-vcluster that Helm owns
C24_HelmOwned == { x \in fn.secrets : x.name = "my-vcluster" /\ x.owner = "helm" }

C24_DeletionPassDone == fn.op = "teardown" /\ fn.done

\* C24: HelmClient.Delete is invoked only if a release record of that name
\* exists and the secret of its latest version is labelled owner=helm;
\* otherwise (no record, label absent or different) the pass invokes no
\* Delete and goes on to the PVC delete and then the finalizer update.
C24_DeleteOnlyHelmOwnedRelease ==
    C24_DeletionPassDone =>
        /\ Invoked(fn.out.trace, "HelmDelete") =>
              /\ fn.listOK /\ C24_HelmOwned # {}
              /\ \E x \in C24_HelmOwned :
                    /\ \A y \in C24_HelmOwned : y.version <= x.version
                    /\ x.owner = "helm"
        /\ (fn.listOK /\ C24_HelmOwned = {}) =>
              /\ ~Invoked(fn.out.trace, "HelmDelete")
              /\ CallResult(fn.out.trace, "ReleaseGet", "notfound")
              /\ Invoked(fn.out.trace, "PvcDelete")
              /\ fn.pvcDel # "err" => Invoked(fn.out.trace, "UpdateFinalizer")
              /\ (fn.pvcDel # "err" /\ fn.updOK) =>
                    (fn.out.err = "" /\ fn.out.finalizer = "removed")

\* a secret named like the release but owned by someone else was there, and
\* the pass removed the finalizer without a Helm delete
C24_ForeignReleaseLeftAlone ==
    /\ C24_DeletionPassDone
    /\ \E x \in fn.secrets : x.name = "my-vcluster" /\ x.owner = "someone-else"
    /\ C24_HelmOwned = {}
    /\ ~Invoked(fn.out.trace, "HelmDelete")
    /\ fn.out.finalizer = "removed"

----------------------------------------------------------------------------
(* C25: the service CIDR probe *)

\* C25: at most one Create is in flight at a time; once a call has returned
\* a CIDR, later calls return the same value and send no Create; and no
\* Service exists in the cluster as a result of the calls, whatever the
\* Create returned.
C25_OneProbeCachedNoSideEffect ==
    fn.op = "cidr" =>
        /\ Cardinality({ w \in Workers : fn.pc[w] = "create" }) <= 1
        /\ Cardinality(fn.returned) <= 1
        /\ ~fn.createdAfterReturn
        /\ fn.services = 0

----------------------------------------------------------------------------
(* C26: failures in the deletion branch *)

C26_DeletionCalls ==
    {"NamespaceGet", "ReleaseGet", "HelmDelete", "PvcDelete", "UpdateFinalizer"}

\* C26: in a deletion pass the failure of the namespace lookup, the release
\* lookup, the Helm delete, the PVC delete or the finalizer update is the
\* last call of the pass, and Reconcile returns a non-nil error.
C26_DeletionFailureReturnsError ==
    last.branch = "deleting" =>
        \A i \in 1..Len(last.trace) :
            (last.trace[i].call \in C26_DeletionCalls /\ last.trace[i].res = "err") =>
                (i = Len(last.trace) /\ last.err # "")

----------------------------------------------------------------------------
(* C27: KubeconfigReady across a redeploy *)

\* call c with result res comes after a successful Upgrade in the trace
C27_AfterUpgrade(trace, c, res) ==
    \E i \in 1..Len(trace), j \in 1..Len(trace) :
        i < j /\ trace[i] = Call("Upgrade", "ok") /\ trace[j] = Call(c, res)

\* the last pass redeployed and its deferred patch was stored
C27_RedeployStored == CallResult(last.trace, "Upgrade", "ok") /\ last.patched

\* C27 as stated: a successful Upgrade sets HelmChartDeployed True and
\* removes KubeconfigReady, and KubeconfigReady is True afterwards only if the
\* kubeconfig sync has called the nested API server after the redeploy.
C27_ReadyOnlyAfterReachabilityCheck ==
    C27_RedeployStored =>
        /\ IsTrue(vc, HelmChartDeployedCondition)
        /\ IsTrue(vc, KubeconfigReadyCondition) => C27_AfterUpgrade(last.trace, "Probe", "ok")

\* C27 as amended: a successful Upgrade sets HelmChartDeployed True and
\* removes KubeconfigReady; after it KubeconfigReady is True only if the
\* kubeconfig sync that follows the redeploy in the same pass has succeeded
\* (credentials read again, kubeconfig secret written again), whether or not
\* it called the nested API server; if that sync fails KubeconfigReady is
\* False with reason CheckFailed, never the True of before the redeploy.
C27_ReadyOnlyAfterSyncFollowingRedeploy ==
    /\ vc.exists =>
          LET u == helmUpgrade(vc, TRUE) IN
          /\ u.err = ""
          /\ IsTrue(u.o, HelmChartDeployedCondition)
          /\ u.o.conditions[KubeconfigReadyCondition] = AbsentCondition
    /\ C27_RedeployStored =>
          /\ IsTrue(vc, HelmChartDeployedCondition)
          /\ IsTrue(vc, KubeconfigReadyCondition) <=>
                /\ C27_AfterUpgrade(last.trace, "GetVClusterCredentials", "ok")
                /\ C27_AfterUpgrade(last.trace, "SecretWrite", "ok")
                /\ variant = "Generic" => C27_AfterUpgrade(last.trace, "CaSecretWrite", "ok")
                /\ last.branch \in {"infra", "readyz", "success"}
          /\ ~IsTrue(vc, KubeconfigReadyCondition) =>
                /\ last.branch = "sync"
                /\ vc.conditions[KubeconfigReadyCondition].status = "False"
                /\ vc.conditions[KubeconfigReadyCondition].reason = "CheckFailed"

\* a redeploy of an initialized virtual cluster: KubeconfigReady is True
\* again without a probe of the nested API server
C27_ReadyAgainWithoutProbe ==
    /\ C27_RedeployStored
    /\ ~Invoked(last.trace, "Probe")
    /\ IsTrue(vc, KubeconfigReadyCondition)
    /\ vc.generation > 1

----------------------------------------------------------------------------
(* C28: ControlPlaneInitialized is sticky *)

\* the step is a reconcile pass that has read the stored resource
C28_Pass ==
    vc.exists /\ last' # NoPass /\ last'.branch \notin {"getError", "absent"}

\* the pass has reached the initialization check of syncVClusterKubeconfig
C28_ReachesStep == CallResult(last'.trace, "GetVClusterCredentials", "ok")

C28_Probes == CallsOf(last'.trace, "Probe")

\* C28: while ControlPlaneInitialized is not True a pass that reaches the
\* step makes exactly one probe and the condition becomes True only if the
\* probe succeeds; once it is True no pass probes and no step sets it to
\* False or removes it; status.initialized is stored true by every pass that
\* gets past the step, and never goes back to false.
C28_ControlPlaneInitializedSticky ==
    [][ /\ (vc.exists /\ vc'.exists /\ IsTrue(vc, ControlPlaneInitializedCondition)) =>
              IsTrue(vc', ControlPlaneInitializedCondition)
        /\ (vc.exists /\ vc'.exists /\ vc.initialized) => vc'.initialized
        /\ (vc.exists /\ vc'.exists /\ ~IsTrue(vc, ControlPlaneInitializedCondition)
              /\ IsTrue(vc', ControlPlaneInitializedCondition)) =>
              (C28_Pass /\ CallResult(last'.trace, "Probe", "ok") /\ last'.patched)
        /\ C28_Pass =>
              /\ IsTrue(vc, ControlPlaneInitializedCondition) => C28_Probes = {}
              /\ (~IsTrue(vc, ControlPlaneInitializedCondition) /\ C28_ReachesStep) =>
                    Cardinality(C28_Probes) = 1
              /\ ~C28_ReachesStep => C28_Probes = {}
              /\ (CallResult(last'.trace, "Probe", "ok") /\ last'.patched) =>
                    IsTrue(vc', ControlPlaneInitializedCondition)
              /\ (Invoked(last'.trace, "GetVClusterKubeConfig") /\ last'.patched) =>
                    vc'.initialized
              /\ (~vc.initialized /\ vc'.initialized) =>
                    Invoked(last'.trace, "GetVClusterKubeConfig") ]_vars

\* a pass on an initialized virtual cluster went through the sync without a
\* probe
C28_SyncWithoutProbe ==
    /\ CallResult(last.trace, "GetVClusterCredentials", "ok")
    /\ CallResult(last.trace, "SecretWrite", "ok")
    /\ ~Invoked(last.trace, "Probe")
    /\ IsTrue(vc, ControlPlaneInitializedCondition) /\ vc.initialized

----------------------------------------------------------------------------
(* C29: when KubeconfigReady is marked True *)

\* the last pass ran syncVClusterKubeconfig and its deferred patch was stored
C29_SyncPassStored == Invoked(last.trace, "GetVClusterCredentials") /\ last.patched

\* every call that syncVClusterKubeconfig made in the last pass succeeded,
\* up to its last one
C29_AllSyncStepsSucceeded ==
    /\ CallResult(last.trace, "GetVClusterCredentials", "ok")
    /\ Invoked(last.trace, "Probe") => CallResult(last.trace, "Probe", "ok")
    /\ CallResult(last.trace, "GetVClusterKubeConfig", "ok")
    /\ Invoked(last.trace, "Discover") => CallResult(last.trace, "Discover", "ok")
    /\ CallResult(last.trace, "SecretWrite", "ok")
    /\ variant = "Generic" => CallResult(last.trace, "CaSecretWrite", "ok")

\* C29: a pass marks KubeconfigReady True only if credential extraction, the
\* probe when made, the kubeconfig with one cluster, host resolution, the
\* kubeconfig Secret upsert and (GenericReconciler) the certs read and the CA
\* Secret upsert all succeeded in it; otherwise it ends with KubeconfigReady
\* False, reason CheckFailed, and makes neither the infrastructure patch nor
\* the readiness probe.
C29_KubeconfigReadyOnlyAfterAllSteps ==
    C29_SyncPassStored =>
        /\ IsTrue(vc, KubeconfigReadyCondition) <=> C29_AllSyncStepsSucceeded
        /\ ~C29_AllSyncStepsSucceeded =>
              /\ last.branch = "sync"
              /\ vc.conditions[KubeconfigReadyCondition].status = "False"
              /\ vc.conditions[KubeconfigReadyCondition].reason = "CheckFailed"
              /\ ~Invoked(last.trace, "InfraPatch")
              /\ ~Invoked(last.trace, "Readyz")
        /\ \A i \in CallsOf(last.trace, "InfraPatch") \cup CallsOf(last.trace, "Readyz") :
              \A j \in CallsOf(last.trace, "SecretWrite") \cup CallsOf(last.trace, "CaSecretWrite") :
                  j < i

\* the CA Secret upsert failed on a resource whose KubeconfigReady was True
\* and the pass ended with the condition False
C29_CaSecretFailedAfterReady ==
    /\ C29_SyncPassStored
    /\ CallResult(last.trace, "CaSecretWrite", "err")
    /\ ~Invoked(last.trace, "Upgrade")
    /\ vc.conditions[KubeconfigReadyCondition].reason = "CheckFailed"
    /\ vc.ready

----------------------------------------------------------------------------
(* C30: status.reason and status.message *)

\* C30: in every resource state written by the deferred status step,
\* status.reason and status.message are those of the first condition in list
\* order that is False with severity Error, and both are empty when there is
\* no such condition.
C30_ReasonAndMessageFollowConditions ==
    (vc.exists /\ last.patched) =>
        IF HasErrorCondition(vc)
        THEN /\ vc.reason = FirstErrorCondition(vc).reason
             /\ vc.message = FirstErrorCondition(vc).message
        ELSE vc.reason = "" /\ vc.message = ""

----------------------------------------------------------------------------
(* C31: the controller owner reference in patchInfrastructureCluster *)

C31_InfraCallDone == fn.op = "infra" /\ fn.done

\* C31: a call made in Normal state with clusterKindExists and without the
\* skip annotation never fails with "no controller owner reference found"
\* and the parent it fetches is the Cluster.
C31_ControllerOwnerIsTheCluster ==
    (C31_InfraCallDone /\ fn.cke /\ fn.skip # "true") =>
        /\ fn.out.err # "no controller owner reference found"
        /\ \A i \in 1..Len(fn.out.trace) :
              Len(fn.out.trace[i].call) >= 10 /\ SubSeq(fn.out.trace[i].call, 1, 10) = "ParentGet:"
                  => fn.out.trace[i].call = "ParentGet:Cluster"

----------------------------------------------------------------------------
(* C32: the calls of patchInfrastructureCluster that change nothing *)

\* the object the call fetches as parent is a Cluster whose
\* spec.infrastructureRef names a VCluster of one of the two groups
C32_SelfReference ==
    /\ fn.cke /\ fn.skip # "true"
    /\ GetControllerOf(fn.refs).kind = "Cluster"
    /\ fn.ref.kind = "VCluster"
    /\ fn.ref.apiVersion \in {InfrastructureGroupVersion, ControlplaneGroupVersion}

C32_Disabled == ~fn.cke \/ fn.skip = "true"

C32_NothingFetchedOrPatched ==
    /\ \A i \in 1..Len(fn.out.trace) :
          fn.out.trace[i].call \notin ({"InfraPatch"} \cup { "InfraGet:" \o k : k \in InfraKinds })
    /\ fn.out.infra = NewInfraObject
    /\ fn.out.externalManaged = fn.em

\* C32: with a self-referencing infrastructureRef on the parent Cluster the
\* call fetches and patches no infrastructure object, leaves
\* status.externalManagedControlPlane as it was, and returns success once the
\* parent and its reference are read; without clusterKindExists or with the
\* skip annotation "true" it returns success without any call at all.
C32_SelfOrDisabledChangesNothing ==
    C31_InfraCallDone =>
        /\ C32_SelfReference =>
              /\ C32_NothingFetchedOrPatched
              /\ fn.fail \notin {"parentGet", "refApiVersion", "refKind"} => fn.out.err = ""
        /\ C32_Disabled =>
              /\ C32_NothingFetchedOrPatched
              /\ fn.out.trace = << >>
              /\ fn.out.err = ""

\* a control-plane-group self-reference on a resource whose status already
\* says externally managed, and a call skipped by the annotation
C32_ControlplaneSelfReferenceDone ==
    /\ C31_InfraCallDone /\ C32_SelfReference
    /\ fn.ref.apiVersion = ControlplaneGroupVersion
    /\ fn.em /\ fn.fail = "none" /\ fn.out.err = ""
    /\ Len(fn.out.trace) = 1

----------------------------------------------------------------------------
(* C33: what patchInfrastructureCluster writes for other references *)

\* the call reads a parent Cluster whose reference is not a self-reference
C33_NonSelf ==
    /\ C31_InfraCallDone /\ fn.cke /\ fn.skip # "true"
    /\ GetControllerOf(fn.refs).kind = "Cluster"
    /\ ~(/\ fn.ref.kind = "VCluster"
         /\ fn.ref.apiVersion \in {InfrastructureGroupVersion, ControlplaneGroupVersion})
    /\ fn.fail \notin {"parentGet", "refApiVersion", "refKind"}

C33_PatchIssued ==
    \E i \in 1..Len(fn.out.trace) : fn.out.trace[i].call = "InfraPatch"

C33_Expected ==
    [controlPlaneEndpoint |->
         IF fn.ref.kind = "OpenStackCluster"
         THEN [set |-> FALSE, host |-> "", port |-> 0]
         ELSE [set |-> TRUE, host |-> fn.host, port |-> fn.port],
     apiServerFixedIP |-> IF fn.ref.kind = "OpenStackCluster" THEN fn.host ELSE "",
     apiServerPort |-> IF fn.ref.kind = "OpenStackCluster" THEN fn.port ELSE 0,
     ready |-> fn.ref.kind \in {"KubevirtCluster", "NutanixCluster", "PacketCluster"}]

\* C33: for a reference that is not a self-reference the call sets
\* status.externalManagedControlPlane; the patch is issued exactly when no
\* step before it failed, a failing step or patch is returned as the error,
\* and a successful call stores the endpoint of the VCluster spec under the
\* fields of the kind, with status.ready for the three kinds that need it.
C33_InfrastructureObjectPatched ==
    C33_NonSelf =>
        /\ fn.out.externalManaged
        /\ C33_PatchIssued <=> fn.fail \in {"none", "infraPatch", "statusNotMap"}
                                   /\ (fn.fail = "statusNotMap" => ~NeedsStatusReady(fn.ref.kind))
        /\ fn.out.err = "" <=> \/ fn.fail = "none"
                               \/ fn.fail = "statusNotMap" /\ ~NeedsStatusReady(fn.ref.kind)
        /\ fn.out.err = "" => fn.out.infra = C33_Expected
        /\ fn.out.err # "" => fn.out.infra = NewInfraObject

C33_OpenStackPatched ==
    /\ C33_NonSelf /\ fn.ref.kind = "OpenStackCluster" /\ fn.out.err = ""
    /\ fn.port = 8443 /\ fn.out.infra.apiServerPort = 8443
    /\ ~fn.em /\ fn.out.externalManaged

C33_KubevirtPatched ==
    /\ C33_NonSelf /\ fn.ref.kind = "KubevirtCluster" /\ fn.out.err = ""
    /\ fn.out.infra.ready /\ fn.out.infra.controlPlaneEndpoint.set

----------------------------------------------------------------------------
(* C34: one endpoint within a pass *)

\* C34: the readyz request and, in GenericReconciler, the infrastructure
\* patch use the host and port of the server written to the kubeconfig
\* Secret; with a host set by the user and port 0 that port is 443.
C34_OneEndpointPerPass ==
    (fn.op = "endpoint" /\ fn.done) =>
        /\ fn.out.readyzURL = fn.out.secretServer \o "/readyz"
        /\ variant = "Generic" =>
              fn.out.secretServer
                  = "https://" \o SprintfHostPort(fn.out.infraHost, fn.out.infraPort)
        /\ (fn.host # "" /\ fn.port = 0) =>
              /\ fn.out.secretServer = "https://" \o SprintfHostPort(fn.host, DefaultControlPlanePort)
              /\ fn.out.readyzURL
                     = "https://" \o SprintfHostPort(fn.host, DefaultControlPlanePort) \o "/readyz"
              /\ fn.out.infraPort = DefaultControlPlanePort

----------------------------------------------------------------------------
(* C35: no Upgrade without the cleanup finalizer in storage *)

\* the last pass tried to store the finalizer and the update failed
C35_FinalizerUpdateFailed ==
    last.branch \in C21_NormalBranches /\ CallResult(last.trace, "UpdateFinalizer", "err")

\* C35: a pass invokes HelmClient.Upgrade only with the cleanup finalizer in
\* storage (found there or stored by the pass's EnsureFinalizer before the
\* Upgrade); a pass whose finalizer update fails makes no Upgrade, no secret
\* write and no status patch; hence a resource in storage with a release
\* installed by the controller carries the finalizer, and such a release is
\* left behind a removed resource only where the namespace is being deleted.
C35_UpgradeOnlyWithStoredFinalizer ==
    /\ Invoked(last.trace, "Upgrade") =>
          /\ vc.exists /\ vc.finalizer
          /\ ~C35_FinalizerUpdateFailed
          /\ \A i \in 1..Len(last.trace) :
                last.trace[i].call = "UpdateFinalizer" =>
                    \E j \in (i + 1)..Len(last.trace) : last.trace[j].call = "Upgrade"
    /\ C35_FinalizerUpdateFailed =>
          /\ ~Invoked(last.trace, "Upgrade")
          /\ ~Invoked(last.trace, "SecretWrite")
          /\ ~Invoked(last.trace, "CaSecretWrite")
          /\ ~Invoked(last.trace, "Patch")
          /\ ~last.patched
          /\ vc.exists /\ ~vc.finalizer
    /\ release = "helm" => IF vc.exists THEN vc.finalizer ELSE nsTerminating

\* the finalizer and the release were stored by one pass
C35_FinalizerThenUpgrade ==
    /\ CallResult(last.trace, "UpdateFinalizer", "ok")
    /\ CallResult(last.trace, "Upgrade", "ok")
    /\ release = "helm" /\ vc.finalizer

\* a pass that could not store the finalizer, before any release exists
C35_NothingInstalledWithoutFinalizer ==
    C35_FinalizerUpdateFailed /\ release = "none" /\ ~pvc

----------------------------------------------------------------------------
(* C36: a spec change racing with a pass *)

\* the stored resource says that its generation is deployed
C36_ReportsCurrentSpecDeployed ==
    /\ fn.op = "race" /\ vc.exists
    /\ vc.observedGeneration = vc.generation
    /\ IsTrue(vc, HelmChartDeployedCondition)

\* C36: whenever the stored resource has status.observedGeneration equal to
\* generation and HelmChartDeployed True, the most recent successful Upgrade
\* was made with the chart settings of the stored spec, read at the stored
\* generation, whatever the interleaving of spec updates and passes.
C36_SpecChangeNotLost ==
    C36_ReportsCurrentSpecDeployed =>
        /\ fn.installed.chart = ChartOf(vc)
        /\ fn.installed.generation = vc.generation

\* the user changed the spec between the read and the patch of a pass that
\* had deployed the old spec, and a later pass deployed the new one
C36_RacedChangeDeployed ==
    /\ C36_ReportsCurrentSpecDeployed
    /\ fn.raced /\ fn.pc = "idle"
    /\ vc.generation > 1
    /\ fn.installed.chart = ChartOf(vc)

----------------------------------------------------------------------------
(* C37: the phase after a failed kubeconfig sync *)

\* the last pass failed in syncVClusterKubeconfig and stored its status
C37_SyncFailedPassStored ==
    /\ WrittenByDeferredStep /\ last.branch = "sync"
    /\ vc.conditions[KubeconfigReadyCondition].status = "False"

\* C37: a pass whose kubeconfig sync failed does not leave the resource with
\* status.phase Deployed.
C37_NotDeployedAfterSyncFailure ==
    C37_SyncFailedPassStored => vc.phase # "Deployed"

\* C37 as amended: a pass whose kubeconfig sync failed makes no readyz
\* request and records the failure as a Warning; the phase it stores is
\* computed from the status.ready left by earlier passes: Deployed only if
\* that status.ready is true and ControlPlaneInitialized is True, and then
\* Deployed unless the phase is Failed; a resource whose status.ready is
\* false is not Deployed.
C37_DeployedOnlyByLeftoverReady ==
    C37_SyncFailedPassStored =>
        /\ ~Invoked(last.trace, "Readyz")
        /\ vc.conditions[KubeconfigReadyCondition].severity = "Warning"
        /\ vc.phase = "Deployed" => vc.ready /\ IsTrue(vc, ControlPlaneInitializedCondition)
        /\ (vc.ready /\ IsTrue(vc, ControlPlaneInitializedCondition) /\ vc.phase # "Failed")
               => vc.phase = "Deployed"

\* a resource that was ready, after a pass that could not read the credentials
C37_DeployedAfterSyncFailure ==
    /\ C37_SyncFailedPassStored
    /\ CallResult(last.trace, "GetVClusterCredentials", "missing")
    /\ vc.ready /\ vc.phase = "Deployed"

\* a resource that was never ready, after a failed sync
C37_PendingAfterSyncFailure ==
    C37_SyncFailedPassStored /\ ~vc.ready /\ vc.phase = "Pending"

----------------------------------------------------------------------------
(* C38: provisioning converges *)

C38_Provisioned ==
    /\ vc.phase = "Deployed" /\ vc.ready
    /\ IsTrue(vc, ReadyCondition)

\* C38: once the external conditions hold for good, the resource eventually
\* has phase Deployed, status.ready true and the Ready condition True, and
\* keeps them.
C38_ProvisioningConverges == <>[]C38_Provisioned

----------------------------------------------------------------------------
(* C39: deletion converges *)

\* C39: deletion converges on the retries Reconcile requests: while the
\* finalizer is on the deleted resource a pass is queued, so that once the
\* external calls succeed the finalizer is removed without any other event.
C39_DeletionRetriedUntilFinalizerRemoved ==
    (fn.op = "delete" /\ vc.exists /\ vc.finalizer) => fn.queued

----------------------------------------------------------------------------
(* C40: the endpoint of the owning Cluster in VNodeClusterReconciler *)

\* C40: after reconcileNormal the VNodeCluster's control-plane endpoint is
\* the Cluster's when the Cluster names a host, and is unchanged when it
\* names none.
C40_TakesOverClusterEndpoint ==
    (fn.op = "vnode" /\ fn.done) =>
        fn.out.controlPlaneEndpoint =
            IF fn.regularCluster.controlPlaneEndpoint.host # ""
            THEN fn.regularCluster.controlPlaneEndpoint
            ELSE fn.vNodeCluster.controlPlaneEndpoint

====
